---- MODULE Spec2Model ----
(***************************************************************************)
(* A model of the streaming-response pipeline of the GLM chat provider:    *)
(* the <think> marker machine (provider.ts processThinkingContent), the    *)
(* tool-call accumulator (collectToolCalls / reportToolCalls), the stream  *)
(* decoder (api.ts GlmApiClient.streamChat) and the error classifier       *)
(* (throwMappedError).                                                     *)
(*                                                                         *)
(* Strings are sequences of one-character strings.  The two decoration     *)
(* literals only ever take part in concatenations, so each is kept as a    *)
(* one-element sequence holding the literal.                               *)
(***************************************************************************)
EXTENDS Integers, Sequences, FiniteSets, TLC

VARIABLES
    text,            \* think machine: the whole text of one response
    pos,             \* think machine: number of characters of text fed so far
    thinkingState,   \* streamResponse's thinkingState: [buffer, insideThinking]
    pcThink,         \* position in processThinkingContent: "idle" or "loop"
    output,          \* processThinkingContent local
    buffer,          \* processThinkingContent local
    insideThinking,  \* processThinkingContent local
    emitted,         \* concatenation of the outputs returned so far
    scripts,         \* accumulator: per index, the fragments the stream carries for it
    taken,           \* accumulator: per index, the number of fragments collected
    flushedAt,       \* accumulator: per index, the value of taken at the last flush
    toolCallBuilders,\* streamResponse's Map, as its entries in insertion order
    sink,            \* the parts given to progress.report, in order
    lastOps,         \* accumulator: the last two operations, oldest first
    wire,            \* decoder: the whole body the transport delivers
    rpos,            \* decoder: number of characters of wire read so far
    lineBuffer,      \* streamChat's buffer (api.ts 147)
    lines,           \* streamChat's lines not yet visited by the for loop
    pcDec,           \* position in streamChat (api.ts 97-181)
    chunks,          \* the chunks streamChat has yielded, in order
    response,        \* decoder: what fetch resolves with, [status, hasBody]
    reader,          \* decoder: "none", "locked" or "released"
    readerCancelled, \* decoder: whether reader.cancel() was called
    decRaised,       \* decoder: the failure streamChat threw
    pcResp,          \* per response: position in provideLanguageModelChatResponse
    raised,          \* per response: the error streamResponse raised
    thrown,          \* per response: the error that reached the caller
    deleteCalls,     \* per response: invocations of authManager.deleteApiKey
    deleteReturns,   \* per response: invocations of deleteApiKey that have resolved
    secret,          \* the credential in the secret store ("" when none)
    stream,          \* pipeline: the chunks the server sends for the response
    delivered,       \* pipeline: number of chunks the transport has handed over
    transport,       \* pipeline: "idle", "requested", "open", "ended", "aborted", "failed"
    pcGen,           \* position in streamChat (part_002 197-227)
    listening,       \* whether streamChat's cancellation listener is registered
    cancelRequested, \* token.isCancellationRequested
    pcDrv,           \* position in streamResponse (provider.ts 551-587)
    choices,         \* the choices of the current chunk not yet processed
    calls,           \* two calls in flight: per call, the locals of its streamResponse
    thread           \* the call whose synchronous code holds the thread, 0 when none

thinkVars == <<text, pos, thinkingState, pcThink, output, buffer, insideThinking, emitted>>

toolVars == <<scripts, taken, flushedAt, toolCallBuilders, sink, lastOps>>

decVars ==
    <<wire, rpos, lineBuffer, lines, pcDec, chunks, response, reader, readerCancelled, decRaised>>

errVars == <<pcResp, raised, thrown, deleteCalls, deleteReturns, secret>>

pipeVars == <<stream, delivered, transport, pcGen, listening, cancelRequested, pcDrv, choices>>

callVars == <<calls, thread>>

vars == <<thinkVars, toolVars, decVars, errVars, pipeVars, callVars>>

\* what the think machine leaves alone
notThink == <<toolVars, decVars, errVars, pipeVars, callVars>>

\* what the accumulator leaves alone
notTools == <<thinkVars, decVars, errVars, pipeVars, callVars>>

\* what the decoder leaves alone
notDec == <<thinkVars, toolVars, errVars, pipeVars, callVars>>

\* what the error classifier leaves alone
notErr == <<thinkVars, toolVars, decVars, pipeVars, callVars>>

\* what streamResponse and streamChat leave alone: the locals of a call of
\* processThinkingContent, the accumulator's script, the line decoder
notPipe ==
    <<text, pos, pcThink, output, buffer, insideThinking, emitted,
      scripts, taken, flushedAt, lastOps, decVars, callVars>>

\* what two calls in flight leave alone
notCalls == <<thinkVars, toolVars, decVars, errVars, pipeVars>>

(***************************************************************************)
(* Bounds of the model.                                                    *)
(***************************************************************************)
MaxPieces == 4

\* the most tool-call fragments one delta carries
MaxCalls == 2

\* the most lines the body of one response holds
MaxRecords == 3

\* the most chunks of a response whose chunks are chosen freely
MaxChunks == 3

\* the most chunks of each of two responses in flight
MaxChunksEach == 2

(***************************************************************************)
(* String helpers (JavaScript semantics).                                  *)
(***************************************************************************)
Min(a, b) == IF a <= b THEN a ELSE b

\* s.slice(0, n) for 0 <= n <= s.length
Take(s, n) == SubSeq(s, 1, n)

\* s.slice(n) for 0 <= n <= s.length
Drop(s, n) == SubSeq(s, n + 1, Len(s))

\* s.slice(-n) for 1 <= n <= s.length
LastN(s, n) == SubSeq(s, Len(s) - n + 1, Len(s))

\* s.endsWith(p)
EndsWith(s, p) == Len(p) <= Len(s) /\ LastN(s, Len(p)) = p

\* s.startsWith(p)
StartsWith(s, p) == Len(p) <= Len(s) /\ Take(s, Len(p)) = p

\* s.indexOf(p): the 0-based index of the first occurrence, -1 when there is none
IndexOf(s, p) ==
    LET hits == {i \in 0..(Len(s) - Len(p)) : SubSeq(s, i + 1, i + Len(p)) = p}
    IN IF hits = {} THEN -1 ELSE CHOOSE i \in hits : \A j \in hits : i <= j

(***************************************************************************)
(* provider.ts constants.                                                  *)
(***************************************************************************)
THINK_OPEN == <<"<", "t", "h", "i", "n", "k", ">">>

THINK_CLOSE == <<"<", "/", "t", "h", "i", "n", "k", ">">>

THINK_OPEN_MARKDOWN == <<"<details><summary>Thinking</summary>\n\n">>

THINK_CLOSE_MARKDOWN == <<"\n\n</details>\n\n">>

(***************************************************************************)
(* provider.ts getPartialSuffixLength: the largest i in                    *)
(* 1..min(buffer.length, marker.length - 1) with                           *)
(* buffer.endsWith(marker.slice(0, i)), or 0.                              *)
(***************************************************************************)
getPartialSuffixLength(buf, marker) ==
    LET hits == {i \in 1..Min(Len(buf), Len(marker) - 1) : EndsWith(buf, Take(marker, i))}
    IN IF hits = {} THEN 0 ELSE CHOOSE i \in hits : \A j \in hits : j <= i

appendThinkingSegment(segment, inside) ==
    IF inside THEN segment \o THINK_CLOSE_MARKDOWN ELSE segment \o THINK_OPEN_MARKDOWN

\* faulty variant of SoughtMarker: the open marker is sought in either mode
SoughtMarkerOpen(inside) == THINK_OPEN

\* line 459: the marker sought in the current mode
SoughtMarker(inside) == IF inside THEN THINK_CLOSE ELSE THINK_OPEN

\* faulty variant of AfterMarker: the slice starts one character early
AfterMarkerShort(buf, markerIndex, marker) == Drop(buf, markerIndex + Len(marker) - 1)

\* line 463: buffer.slice(markerIndex + marker.length)
AfterMarker(buf, markerIndex, marker) == Drop(buf, markerIndex + Len(marker))

(***************************************************************************)
(* The earlier version of processThinkingContent (provider.ts 23-83), the  *)
(* one whose partial-match branch ends the loop with `break`.  One call    *)
(* of ThinkLoopV1 is one evaluation of the while loop from its head.       *)
(***************************************************************************)
partialMatchV1(buf, marker) ==
    LET hits == {i \in 1..(Len(marker) - 1) : i <= Len(buf) /\ LastN(buf, i) = Take(marker, i)}
    IN IF hits = {} THEN 0 ELSE CHOOSE i \in hits : \A j \in hits : j <= i

RECURSIVE ThinkLoopV1(_, _, _)
ThinkLoopV1(out, buf, inside) ==
    IF Len(buf) = 0
    THEN [output |-> out, state |-> [buffer |-> buf, insideThinking |-> inside]]
    ELSE LET marker == IF inside THEN THINK_CLOSE ELSE THINK_OPEN
             idx == IndexOf(buf, marker)
             deco == IF inside THEN THINK_CLOSE_MARKDOWN ELSE THINK_OPEN_MARKDOWN
             pm == partialMatchV1(buf, marker)
         IN IF idx # -1
            THEN ThinkLoopV1(out \o Take(buf, idx) \o deco, Drop(buf, idx + Len(marker)), ~inside)
            ELSE IF pm > 0
                 THEN [output |-> out \o Take(buf, Len(buf) - pm),
                       state |-> [buffer |-> LastN(buf, pm), insideThinking |-> inside]]
                 ELSE [output |-> out \o buf,
                       state |-> [buffer |-> <<>>, insideThinking |-> inside]]

processThinkingContentV1(content, state) ==
    ThinkLoopV1(<<>>, state.buffer \o content, state.insideThinking)

InitialThinkingState == [buffer |-> <<>>, insideThinking |-> FALSE]

(***************************************************************************)
(* JSON text to value, as JSON.parse reads it (secureJsonParse.safeParse   *)
(* in provider.ts 439, JSON.parse in api.ts 171), for texts without        *)
(* escapes, signs, fractions or exponents.  A value is a record            *)
(* [kind, atom, kids]; the kids of an object are its members in insertion  *)
(* order, the kids of an array its elements with empty keys.               *)
(***************************************************************************)
JNull == [kind |-> "null", atom |-> <<>>, kids |-> <<>>]

JBool(word) == [kind |-> "boolean", atom |-> <<word>>, kids |-> <<>>]

JNumber(digits) == [kind |-> "number", atom |-> digits, kids |-> <<>>]

JString(chars) == [kind |-> "string", atom |-> chars, kids |-> <<>>]

JArray(elements) == [kind |-> "array", atom |-> <<>>, kids |-> elements]

JObject(members) == [kind |-> "object", atom |-> <<>>, kids |-> members]

JKid(key, val) == [key |-> key, val |-> val]

JsonWhitespace == {" ", "\t", "\n", "\r"}

JsonDigits == {"0", "1", "2", "3", "4", "5", "6", "7", "8", "9"}

JsonFail == [ok |-> FALSE, val |-> JNull, next |-> 0]

JsonOk(val, next) == [ok |-> TRUE, val |-> val, next |-> next]

\* the first position from i on that holds no whitespace (Len(s) + 1 at the end)
RECURSIVE SkipWs(_, _)
SkipWs(s, i) == IF i <= Len(s) /\ s[i] \in JsonWhitespace THEN SkipWs(s, i + 1) ELSE i

\* the first position from i on that holds no digit
RECURSIVE SkipDigits(_, _)
SkipDigits(s, i) == IF i <= Len(s) /\ s[i] \in JsonDigits THEN SkipDigits(s, i + 1) ELSE i

\* a member assigned to an object: an existing key keeps its place
SetMember(members, key, val) ==
    IF \E k \in 1..Len(members) : members[k].key = key
    THEN [k \in 1..Len(members) |->
            IF members[k].key = key THEN JKid(key, val) ELSE members[k]]
    ELSE Append(members, JKid(key, val))

\* the string whose opening quote is at i - 1
ParseString(s, i) ==
    LET ends == {k \in i..Len(s) : s[k] = "\""}
    IN IF ends = {} THEN JsonFail
       ELSE LET k == CHOOSE e \in ends : \A f \in ends : e <= f
                chars == SubSeq(s, i, k - 1)
            IN IF \E c \in 1..Len(chars) : chars[c] \in {"\\", "\n", "\t", "\r"}
               THEN JsonFail
               ELSE JsonOk(JString(chars), k + 1)

ParseWord(s, i, word, val) ==
    IF SubSeq(s, i, i + Len(word) - 1) = word THEN JsonOk(val, i + Len(word)) ELSE JsonFail

ParseNumber(s, i) ==
    LET j == SkipDigits(s, i)
    IN IF s[i] = "0" /\ j > i + 1 THEN JsonOk(JNumber(<<"0">>), i + 1)
       ELSE JsonOk(JNumber(SubSeq(s, i, j - 1)), j)

RECURSIVE ParseValue(_, _), ParseMembers(_, _, _), ParseElements(_, _, _)
ParseValue(s, i0) ==
    LET i == SkipWs(s, i0)
    IN IF i > Len(s) THEN JsonFail
       ELSE IF s[i] = "{"
            THEN LET j == SkipWs(s, i + 1)
                 IN IF j <= Len(s) /\ s[j] = "}" THEN JsonOk(JObject(<<>>), j + 1)
                    ELSE ParseMembers(s, j, <<>>)
       ELSE IF s[i] = "["
            THEN LET j == SkipWs(s, i + 1)
                 IN IF j <= Len(s) /\ s[j] = "]" THEN JsonOk(JArray(<<>>), j + 1)
                    ELSE ParseElements(s, j, <<>>)
       ELSE IF s[i] = "\"" THEN ParseString(s, i + 1)
       ELSE IF s[i] \in JsonDigits THEN ParseNumber(s, i)
       ELSE IF s[i] = "n" THEN ParseWord(s, i, <<"n", "u", "l", "l">>, JNull)
       ELSE IF s[i] = "t" THEN ParseWord(s, i, <<"t", "r", "u", "e">>, JBool("true"))
       ELSE IF s[i] = "f" THEN ParseWord(s, i, <<"f", "a", "l", "s", "e">>, JBool("false"))
       ELSE JsonFail

\* the members of an object from position i0 (a key is expected there)
ParseMembers(s, i0, acc) ==
    LET i == SkipWs(s, i0)
    IN IF i > Len(s) \/ s[i] # "\"" THEN JsonFail
       ELSE LET key == ParseString(s, i + 1)
            IN IF ~key.ok THEN JsonFail
               ELSE LET c == SkipWs(s, key.next)
                    IN IF c > Len(s) \/ s[c] # ":" THEN JsonFail
                       ELSE LET v == ParseValue(s, c + 1)
                            IN IF ~v.ok THEN JsonFail
                               ELSE LET e == SkipWs(s, v.next)
                                        members == SetMember(acc, key.val.atom, v.val)
                                    IN IF e > Len(s) THEN JsonFail
                                       ELSE IF s[e] = "}" THEN JsonOk(JObject(members), e + 1)
                                       ELSE IF s[e] = "," THEN ParseMembers(s, e + 1, members)
                                       ELSE JsonFail

\* the elements of an array from position i0 (a value is expected there)
ParseElements(s, i0, acc) ==
    LET v == ParseValue(s, i0)
    IN IF ~v.ok THEN JsonFail
       ELSE LET e == SkipWs(s, v.next)
                elements == Append(acc, JKid(<<>>, v.val))
            IN IF e > Len(s) THEN JsonFail
               ELSE IF s[e] = "]" THEN JsonOk(JArray(elements), e + 1)
               ELSE IF s[e] = "," THEN ParseElements(s, e + 1, elements)
               ELSE JsonFail

\* JSON.parse(s): [ok, val]; ok is FALSE where JSON.parse throws
JsonParse(s) ==
    LET r == ParseValue(s, 1)
    IN IF r.ok /\ SkipWs(s, r.next) > Len(s)
       THEN [ok |-> TRUE, val |-> r.val]
       ELSE [ok |-> FALSE, val |-> JNull]

\* JavaScript truthiness and Array.isArray / typeof of a parsed value
JsTruthy(v) ==
    /\ v.kind # "null"
    /\ ~(v.kind = "boolean" /\ v.atom = <<"false">>)
    /\ ~(v.kind = "number" /\ v.atom = <<"0">>)
    /\ ~(v.kind = "string" /\ v.atom = <<>>)

JsTypeofObject(v) == v.kind \in {"object", "array", "null"}

JsIsArray(v) == v.kind = "array"

EmptyMapping == JObject(<<>>)

\* provider.ts 438-444; safeParse gives a falsy value where JSON.parse throws
parseToolArguments(argumentsText) ==
    LET r == JsonParse(IF argumentsText = <<>> THEN <<"{", "}">> ELSE argumentsText)
        parsed == IF r.ok THEN r.val ELSE JNull
    IN IF ~JsTruthy(parsed) \/ ~JsTypeofObject(parsed) \/ JsIsArray(parsed)
       THEN EmptyMapping
       ELSE parsed

(***************************************************************************)
(* The parts progress.report receives.                                     *)
(***************************************************************************)
LanguageModelTextPart(value) ==
    [kind |-> "text", value |-> value, callId |-> "", name |-> "", input |-> JNull]

LanguageModelToolCallPart(callId, name, input) ==
    [kind |-> "toolCall", value |-> <<>>, callId |-> callId, name |-> name, input |-> input]

(***************************************************************************)
(* The tool-call accumulator (provider.ts 605-657).  The Map is the        *)
(* sequence of its entries [index, id, name, arguments] in insertion       *)
(* order; an absent or empty id, name or arguments of a fragment is "".    *)
(***************************************************************************)
BuilderAt(builders, index) ==
    LET hits == {k \in 1..Len(builders) : builders[k].index = index}
    IN IF hits = {} THEN 0 ELSE CHOOSE k \in hits : TRUE

\* faulty variant of collectCall: the argument fragment replaces the text
collectCallReplacing(builders, call) ==
    LET k == BuilderAt(builders, call.index)
        builder == IF k = 0
                   THEN [index |-> call.index, id |-> "", name |-> "", arguments |-> <<>>]
                   ELSE builders[k]
        withId == IF call.id # "" THEN [builder EXCEPT !.id = call.id] ELSE builder
        withName == IF call.name # "" THEN [withId EXCEPT !.name = call.name] ELSE withId
        withArgs == IF call.arguments # <<>>
                    THEN [withName EXCEPT !.arguments = call.arguments]
                    ELSE withName
    IN IF k = 0 THEN Append(builders, withArgs) ELSE [builders EXCEPT ![k] = withArgs]

\* faulty variant of collectCall: identifier and name are assigned from every fragment
collectCallForgetting(builders, call) ==
    LET k == BuilderAt(builders, call.index)
        builder == IF k = 0
                   THEN [index |-> call.index, id |-> "", name |-> "", arguments |-> <<>>]
                   ELSE builders[k]
        withId == [builder EXCEPT !.id = call.id]
        withName == [withId EXCEPT !.name = call.name]
        withArgs == IF call.arguments # <<>>
                    THEN [withName EXCEPT !.arguments = @ \o call.arguments]
                    ELSE withName
    IN IF k = 0 THEN Append(builders, withArgs) ELSE [builders EXCEPT ![k] = withArgs]

\* lines 614-630: one pass of the loop over toolCalls
collectCall(builders, call) ==
    LET k == BuilderAt(builders, call.index)
        builder == IF k = 0
                   THEN [index |-> call.index, id |-> "", name |-> "", arguments |-> <<>>]
                   ELSE builders[k]
        withId == IF call.id # "" THEN [builder EXCEPT !.id = call.id] ELSE builder
        withName == IF call.name # "" THEN [withId EXCEPT !.name = call.name] ELSE withId
        withArgs == IF call.arguments # <<>>
                    THEN [withName EXCEPT !.arguments = @ \o call.arguments]
                    ELSE withName
    IN IF k = 0 THEN Append(builders, withArgs) ELSE [builders EXCEPT ![k] = withArgs]

\* lines 605-632: the Map after collectToolCalls(toolCalls, builders)
RECURSIVE collectToolCalls(_, _)
collectToolCalls(toolCalls, builders) ==
    IF Len(toolCalls) = 0 THEN builders
    ELSE collectToolCalls(Tail(toolCalls), collectCall(builders, Head(toolCalls)))

\* faulty variant of ReportedParts: only the identifier is required
RECURSIVE ReportedPartsIdOnly(_)
ReportedPartsIdOnly(builders) ==
    IF Len(builders) = 0 THEN <<>>
    ELSE LET builder == Head(builders)
         IN IF builder.id = ""
            THEN ReportedPartsIdOnly(Tail(builders))
            ELSE <<LanguageModelToolCallPart(builder.id, builder.name,
                                             parseToolArguments(builder.arguments))>>
                 \o ReportedPartsIdOnly(Tail(builders))

\* lines 642-654: the parts reported for the builders, in Map order
RECURSIVE ReportedParts(_)
ReportedParts(builders) ==
    IF Len(builders) = 0 THEN <<>>
    ELSE LET builder == Head(builders)
         IN IF builder.id = "" \/ builder.name = ""
            THEN ReportedParts(Tail(builders))
            ELSE <<LanguageModelToolCallPart(builder.id, builder.name,
                                             parseToolArguments(builder.arguments))>>
                 \o ReportedParts(Tail(builders))

\* whether JSON.parse throws on the argument text of a builder
Unparsed(argumentsText) == argumentsText # <<>> /\ ~JsonParse(argumentsText).ok

\* the parts reported before the first builder whose arguments do not parse
RECURSIVE ReportedPartsUntilUnparsed(_)
ReportedPartsUntilUnparsed(builders) ==
    IF Len(builders) = 0 THEN <<>>
    ELSE LET builder == Head(builders)
         IN IF builder.id = "" \/ builder.name = ""
            THEN ReportedPartsUntilUnparsed(Tail(builders))
            ELSE IF Unparsed(builder.arguments) THEN <<>>
            ELSE <<LanguageModelToolCallPart(builder.id, builder.name,
                                             parseToolArguments(builder.arguments))>>
                 \o ReportedPartsUntilUnparsed(Tail(builders))

\* faulty variant of reportToolCalls: a parse failure is raised out of the loop
reportToolCallsThrowing(progress, builders) ==
    IF Len(builders) = 0
    THEN [progress |-> progress, builders |-> builders]
    ELSE IF \E k \in 1..Len(builders) :
               /\ builders[k].id # ""
               /\ builders[k].name # ""
               /\ Unparsed(builders[k].arguments)
    THEN [progress |-> progress \o ReportedPartsUntilUnparsed(builders), builders |-> builders]
    ELSE [progress |-> progress \o ReportedParts(builders), builders |-> <<>>]

\* faulty variant of reportToolCalls: the Map is not cleared
reportToolCallsKeeping(progress, builders) ==
    [progress |-> progress \o ReportedParts(builders), builders |-> builders]

\* lines 634-657: progress and the Map after reportToolCalls(progress, builders)
reportToolCalls(progress, builders) ==
    IF Len(builders) = 0
    THEN [progress |-> progress, builders |-> builders]
    ELSE [progress |-> progress \o ReportedParts(builders), builders |-> <<>>]

(***************************************************************************)
(* The earlier version of the flush (provider.ts 165-182), which runs in   *)
(* the loop over the choices on the finish signal "tool_calls".            *)
(***************************************************************************)
\* lines 168-171: args starts as {} and is assigned what JSON.parse returns;
\* it keeps {} where JSON.parse throws
parseArgumentsV1(argumentsText) ==
    LET r == JsonParse(IF argumentsText = <<>> THEN <<"{", "}">> ELSE argumentsText)
    IN IF r.ok THEN r.val ELSE EmptyMapping

\* lines 166-180: the parts reported for the builders, in Map order
RECURSIVE ReportedPartsV1(_)
ReportedPartsV1(builders) ==
    IF Len(builders) = 0 THEN <<>>
    ELSE LET builder == Head(builders)
         IN IF builder.id # "" /\ builder.name # ""
            THEN <<LanguageModelToolCallPart(builder.id, builder.name,
                                             parseArgumentsV1(builder.arguments))>>
                 \o ReportedPartsV1(Tail(builders))
            ELSE ReportedPartsV1(Tail(builders))

(***************************************************************************)
(* The stream decoder (api.ts 145-181): line reassembly and one line of    *)
(* the for loop.                                                           *)
(***************************************************************************)
JsWhitespace == {" ", "\t", "\n", "\r"}

\* s.trim()
RECURSIVE Trim(_)
Trim(s) ==
    IF Len(s) > 0 /\ s[1] \in JsWhitespace THEN Trim(Tail(s))
    ELSE IF Len(s) > 0 /\ s[Len(s)] \in JsWhitespace THEN Trim(SubSeq(s, 1, Len(s) - 1))
    ELSE s

\* s.split("\n"): the segments between the newlines, at least one
RECURSIVE SplitLines(_)
SplitLines(s) ==
    LET idx == IndexOf(s, <<"\n">>)
    IN IF idx < 0 THEN <<s>> ELSE <<Take(s, idx)>> \o SplitLines(Drop(s, idx + 1))

\* faulty variant of HeldBack: the segment after the last newline is dropped
HeldBackDropped(segments) == <<>>

\* api.ts 161: lines.pop(), the segment after the last newline
HeldBack(segments) == segments[Len(segments)]

DataPrefix == <<"d", "a", "t", "a", ":">>

DoneSentinel == <<"[", "D", "O", "N", "E", "]">>

\* faulty variant of decodeLine: a payload that does not parse ends the sequence
decodeLineStopping(line) ==
    LET trimmed == Trim(line)
    IN IF trimmed = <<>> \/ ~StartsWith(trimmed, DataPrefix) THEN [kind |-> "continue", chunk |-> JNull]
       ELSE LET data == Trim(Drop(trimmed, Len(DataPrefix)))
                parsed == JsonParse(data)
            IN IF data = DoneSentinel THEN [kind |-> "return", chunk |-> JNull]
               ELSE IF parsed.ok THEN [kind |-> "yield", chunk |-> parsed.val]
               ELSE [kind |-> "return", chunk |-> JNull]

\* faulty variant of decodeLine: the sentinel is a payload like any other
decodeLineIgnoringDone(line) ==
    LET trimmed == Trim(line)
    IN IF trimmed = <<>> \/ ~StartsWith(trimmed, DataPrefix) THEN [kind |-> "continue", chunk |-> JNull]
       ELSE LET data == Trim(Drop(trimmed, Len(DataPrefix)))
                parsed == JsonParse(data)
            IN IF parsed.ok THEN [kind |-> "yield", chunk |-> parsed.val]
               ELSE [kind |-> "continue", chunk |-> JNull]

\* api.ts 164-175: what the loop body does with one line
decodeLine(line) ==
    LET trimmed == Trim(line)
    IN IF trimmed = <<>> \/ ~StartsWith(trimmed, DataPrefix) THEN [kind |-> "continue", chunk |-> JNull]
       ELSE LET data == Trim(Drop(trimmed, Len(DataPrefix)))
                parsed == JsonParse(data)
            IN IF data = DoneSentinel THEN [kind |-> "return", chunk |-> JNull]
               ELSE IF parsed.ok THEN [kind |-> "yield", chunk |-> parsed.val]
               ELSE [kind |-> "continue", chunk |-> JNull]

\* faulty variant of YieldedAtClose: the segment held at the close is decoded
\* like a line
YieldedAtCloseFlushing(held) ==
    IF decodeLine(held).kind = "yield" THEN <<decodeLine(held).chunk>> ELSE <<>>

\* api.ts 157: if (done) break; nothing visits the segment the buffer holds
YieldedAtClose(held) == <<>>

(***************************************************************************)
(* The bodies the transport delivers: at most MaxRecords lines, each       *)
(* followed by a newline except possibly the last; a run cuts the body     *)
(* into reads anywhere.                                                    *)
(***************************************************************************)
LineGoodObject == <<"d", "a", "t", "a", ":", " ", "{", "}">>

LineGoodNumber == <<"d", "a", "t", "a", ":", "2">>

LineMalformed == <<"d", "a", "t", "a", ":", " ", "{">>

LineDone == <<"d", "a", "t", "a", ":", " ", "[", "D", "O", "N", "E", "]">>

LineComment == <<":", " ", "x", "\r">>

WireLines == {LineGoodObject, LineGoodNumber, LineMalformed, LineDone, LineComment}

RECURSIVE WiresOf(_)
WiresOf(n) ==
    IF n = 0 THEN {<<>>}
    ELSE LET shorter == WiresOf(n - 1)
         IN shorter \cup {w \o l \o <<"\n">> : w \in shorter, l \in WireLines}

\* a blank line before, between or after two lines
BlankBetween == {a \o <<"\n">> \o b : a, b \in WiresOf(1)}

Wires ==
    WiresOf(MaxRecords)
        \cup {w \o l : w \in WiresOf(MaxRecords - 1), l \in WireLines}
        \cup BlankBetween

(***************************************************************************)
(* The error classifier (provider.ts 537-548 and 659-677).  An error is    *)
(* [isGlmApiError, statusCode, message]; a message is a sequence of parts. *)
(***************************************************************************)
\* the third argument of GlmApiError: a decoded JSON value, a raw text, or none
Undefined == [kind |-> "undefined", json |-> JNull, text |-> <<>>]

JsonBody(val) == [kind |-> "json", json |-> val, text |-> <<>>]

TextBody(chars) == [kind |-> "text", json |-> JNull, text |-> chars]

NoError ==
    [isGlmApiError |-> FALSE, statusCode |-> -1, message |-> <<>>, response |-> Undefined]

\* api.ts 83-92
GlmApiError(message, statusCode, responseBody) ==
    [isGlmApiError |-> TRUE, statusCode |-> statusCode, message |-> message,
     response |-> responseBody]

PlainError(message) ==
    [isGlmApiError |-> FALSE, statusCode |-> -1, message |-> message, response |-> Undefined]

InvalidKeyError ==
    PlainError(<<"Invalid API key. Please set a new one using \"GLM: Set API Key\".">>)

RateLimitError == PlainError(<<"Rate limit exceeded. Please wait and try again.">>)

GenericError(error) == PlainError(<<"GLM API error: ">> \o error.message)

\* faulty variant of throwMappedError: the last case rethrows what it was given
throwMappedErrorRethrowing(error) ==
    IF ~error.isGlmApiError THEN [deletes |-> FALSE, throws |-> error]
    ELSE IF error.statusCode = 401 THEN [deletes |-> TRUE, throws |-> InvalidKeyError]
    ELSE IF error.statusCode = 429 THEN [deletes |-> FALSE, throws |-> RateLimitError]
    ELSE [deletes |-> FALSE, throws |-> error]

\* faulty variant of throwMappedError: status 401 is mapped without the deletion
throwMappedErrorKeepingKey(error) ==
    IF ~error.isGlmApiError THEN [deletes |-> FALSE, throws |-> error]
    ELSE IF error.statusCode = 401 THEN [deletes |-> FALSE, throws |-> InvalidKeyError]
    ELSE IF error.statusCode = 429 THEN [deletes |-> FALSE, throws |-> RateLimitError]
    ELSE [deletes |-> FALSE, throws |-> GenericError(error)]

\* faulty variant of throwMappedError: status 429 is treated like status 401
throwMappedErrorDeletingOn429(error) ==
    IF ~error.isGlmApiError THEN [deletes |-> FALSE, throws |-> error]
    ELSE IF error.statusCode = 401 THEN [deletes |-> TRUE, throws |-> InvalidKeyError]
    ELSE IF error.statusCode = 429 THEN [deletes |-> TRUE, throws |-> RateLimitError]
    ELSE [deletes |-> FALSE, throws |-> GenericError(error)]

\* faulty variant of throwMappedError: every failure is wrapped
throwMappedErrorWrapping(error) ==
    IF ~error.isGlmApiError THEN [deletes |-> FALSE, throws |-> GenericError(error)]
    ELSE IF error.statusCode = 401 THEN [deletes |-> TRUE, throws |-> InvalidKeyError]
    ELSE IF error.statusCode = 429 THEN [deletes |-> FALSE, throws |-> RateLimitError]
    ELSE [deletes |-> FALSE, throws |-> GenericError(error)]

\* provider.ts 659-677: whether deleteApiKey is awaited first, and what is thrown
throwMappedError(error) ==
    IF ~error.isGlmApiError THEN [deletes |-> FALSE, throws |-> error]
    ELSE IF error.statusCode = 401 THEN [deletes |-> TRUE, throws |-> InvalidKeyError]
    ELSE IF error.statusCode = 429 THEN [deletes |-> FALSE, throws |-> RateLimitError]
    ELSE [deletes |-> FALSE, throws |-> GenericError(error)]

Responses == {1, 2}

StatusText(statusCode) ==
    IF statusCode = 401 THEN "401 Unauthorized"
    ELSE IF statusCode = 429 THEN "429 Too Many Requests"
    ELSE IF statusCode = 403 THEN "403 Forbidden"
    ELSE "500 Internal Server Error"

\* api.ts 134-138 and 142: the failures streamChat raises
TransportErrors ==
    {GlmApiError(<<"GLM API error: ", StatusText(c)>>, c, Undefined) : c \in {401, 403, 429, 500}}
        \cup {GlmApiError(<<"No response body">>, 0, Undefined)}

\* a failure that is no GlmApiError although it carries a statusCode of 401,
\* such as an error of another client library
ForeignError ==
    [isGlmApiError |-> FALSE, statusCode |-> 401, message |-> <<"401 Unauthorized">>,
     response |-> Undefined]

\* a failure that is no GlmApiError, such as one raised by the sink
OtherErrors == {PlainError(<<"sink failed">>), ForeignError}

Secrets == {"", "key-1", "key-2"}

\* what fetch resolves with (api.ts 118-124): the status and whether the
\* response has a body
Response(status, hasBody) == [status |-> status, hasBody |-> hasBody]

\* response.ok
ResponseOk(r) == r.status >= 200 /\ r.status <= 299

OkResponse == Response(200, TRUE)

FailureStatuses == {401, 429, 500}

\* the bodies of the failure responses: one that is JSON and one that is not
BodyJson == <<"{", "\"", "c", "\"", ":", "1", "}">>

BodyText == <<"B", "a", "d">>

FailureBodies == {BodyJson, BodyText}

\* the pairs of a response and its body: a stream of lines, no body at all,
\* or a failure with its text
Exchanges(wires) ==
    {<<OkResponse, w>> : w \in wires}
        \cup {<<Response(200, FALSE), <<>>>>}
        \cup {<<Response(c, TRUE), b>> : c \in FailureStatuses, b \in FailureBodies}

\* faulty variant of failureResponseError: the body is not kept
failureResponseErrorBare(status, errorText) ==
    GlmApiError(<<"GLM API error: ", StatusText(status)>>, status, Undefined)

\* api.ts 127-138: the error thrown for a status that is no success
failureResponseError(status, errorText) ==
    GlmApiError(<<"GLM API error: ", StatusText(status)>>, status,
                IF JsonParse(errorText).ok THEN JsonBody(JsonParse(errorText).val)
                ELSE TextBody(errorText))

DecStart(exchanges) ==
    /\ \E exchange \in exchanges :
          /\ response = exchange[1]
          /\ wire = exchange[2]
    /\ rpos = 0
    /\ lineBuffer = <<>>
    /\ lines = <<>>
    /\ pcDec = "fetch"
    /\ chunks = <<>>
    /\ reader = "none"
    /\ readerCancelled = FALSE
    /\ decRaised = NoError

DecIdle == DecStart({<<OkResponse, <<>>>>})

ErrStart(secrets) ==
    /\ pcResp = [r \in Responses |-> "streaming"]
    /\ raised = [r \in Responses |-> NoError]
    /\ thrown = [r \in Responses |-> NoError]
    /\ deleteCalls = [r \in Responses |-> 0]
    /\ deleteReturns = [r \in Responses |-> 0]
    /\ secret \in secrets

ErrIdle == ErrStart({""})

(***************************************************************************)
(* processThinkingContent (provider.ts 450-480) as one call.  One call of  *)
(* ThinkLoop is one evaluation of the while loop from its head; the loop   *)
(* has no exit but its condition, so a pass that leaves buffer, output and *)
(* insideThinking as they were repeats forever and the call never returns. *)
(***************************************************************************)
RECURSIVE ThinkLoop(_, _, _)
ThinkLoop(out, buf, inside) ==
    IF Len(buf) = 0
    THEN [returns |-> TRUE, output |-> out,
          state |-> [buffer |-> buf, insideThinking |-> inside]]
    ELSE LET marker == SoughtMarker(inside)
             markerIndex == IndexOf(buf, marker)
             partialSuffixLength == getPartialSuffixLength(buf, marker)
         IN IF markerIndex >= 0
            THEN ThinkLoop(out \o appendThinkingSegment(Take(buf, markerIndex), inside),
                           AfterMarker(buf, markerIndex, marker), ~inside)
            ELSE IF partialSuffixLength = 0
            THEN ThinkLoop(out \o buf, <<>>, inside)
            ELSE IF partialSuffixLength = Len(buf)
            THEN [returns |-> FALSE, output |-> out,
                  state |-> [buffer |-> buf, insideThinking |-> inside]]
            ELSE ThinkLoop(out \o Take(buf, Len(buf) - partialSuffixLength),
                           LastN(buf, partialSuffixLength), inside)

processThinkingContent(content, state) ==
    ThinkLoop(<<>>, state.buffer \o content, state.insideThinking)

\* faulty variant of reportTextDelta: the output is kept back, nothing is reported
reportTextDeltaSilent(content, state, progress) ==
    IF content = <<>>
    THEN [returns |-> TRUE, state |-> state, progress |-> progress]
    ELSE LET result == processThinkingContent(content, state)
         IN [returns |-> result.returns, state |-> result.state, progress |-> progress]

\* provider.ts 589-603: the state returned and progress after the call
reportTextDelta(content, state, progress) ==
    IF content = <<>>
    THEN [returns |-> TRUE, state |-> state, progress |-> progress]
    ELSE LET result == processThinkingContent(content, state)
         IN [returns |-> result.returns,
             state |-> result.state,
             progress |-> IF result.output # <<>>
                          THEN Append(progress, LanguageModelTextPart(result.output))
                          ELSE progress]

\* faulty variant of FlushOnFinish: the finish signal is left to the end of the stream
FlushOnFinishDeferred(choice, progress, builders) ==
    [progress |-> progress, builders |-> builders]

\* provider.ts 580-582
FlushOnFinish(choice, progress, builders) ==
    IF choice.finish_reason = "tool_calls"
    THEN reportToolCalls(progress, builders)
    ELSE [progress |-> progress, builders |-> builders]

\* provider.ts 579: collectToolCalls reports nothing
CollectForChoice(choice, progress, builders) ==
    [progress |-> progress, builders |-> collectToolCalls(choice.tool_calls, builders)]

\* provider.ts 577-583, one pass of the loop over chunk.choices, in the
\* order of its three statements
ChoiceFlushed(told, flushed) ==
    [returns |-> told.returns, state |-> told.state,
     builders |-> flushed.builders, progress |-> flushed.progress]

ChoiceCollected(choice, told, collected) ==
    ChoiceFlushed(told, FlushOnFinish(choice, collected.progress, collected.builders))

ChoiceTold(choice, told, builders) ==
    ChoiceCollected(choice, told, CollectForChoice(choice, told.progress, builders))

processChoice(choice, state, builders, progress) ==
    ChoiceTold(choice, reportTextDelta(choice.content, state, progress), builders)

(***************************************************************************)
(* The input of the accumulator: for each index the fragments the stream   *)
(* carries for it, in order; a run interleaves the indices freely.         *)
(***************************************************************************)
Indices == {0, 1}

CallIdOf(i) == IF i = 0 THEN "call_0" ELSE "call_1"

Fragment(id, name, arguments) == [id |-> id, name |-> name, arguments |-> arguments]

ArgsOpen == <<"{", "\"", "a", "\"", ":">>

ArgsOne == <<"1">>

ArgsClose == <<"}">>

ArgsEmptyObject == <<"{", "}">>

ScriptsFor(i) ==
    { \* identifier and name, then the argument in three pieces
      <<Fragment(CallIdOf(i), "f", <<>>), Fragment("", "", ArgsOpen),
        Fragment("", "", ArgsOne), Fragment("", "", ArgsClose)>>,
      \* an identifier and never a name
      <<Fragment(CallIdOf(i), "", <<>>), Fragment("", "", ArgsEmptyObject)>>,
      \* a name and never an identifier
      <<Fragment("", "g", ArgsEmptyObject)>>,
      \* identifier and name in two fragments, an argument that does not parse
      <<Fragment(CallIdOf(i), "", <<>>), Fragment("", "g", ArgsOpen)>>,
      \* a second identifier for the same index, an argument that is no mapping
      <<Fragment(CallIdOf(i), "f", ArgsOne), Fragment("other", "", <<>>)>>,
      \* no fragment
      <<>> }

ScriptChoices == {f \in [Indices -> UNION {ScriptsFor(i) : i \in Indices}] :
                    \A i \in Indices : f[i] \in ScriptsFor(i)}

(***************************************************************************)
(* The chunks of a response.  A choice is [content, tool_calls,            *)
(* finish_reason]; an absent content is <<>>, an absent tool_calls is      *)
(* <<>>, an absent finish_reason is "".                                    *)
(***************************************************************************)
Choice(content, tool_calls, finish_reason) ==
    [content |-> content, tool_calls |-> tool_calls, finish_reason |-> finish_reason]

ToolCall(index, id, name, arguments) ==
    [index |-> index, id |-> id, name |-> name, arguments |-> arguments]

ArgsRest == <<"1", "}">>

\* a think block opens, or its text goes on
ChunkText == <<Choice(THINK_OPEN \o <<"A">>, <<>>, "")>>

\* a tool call starts: identifier, name and the start of the arguments
ChunkOpenCall == <<Choice(<<>>, <<ToolCall(0, "call_0", "f", ArgsOpen)>>, "")>>

\* the rest of the arguments, with no finish signal
ChunkCloseCall == <<Choice(<<>>, <<ToolCall(0, "", "", ArgsRest)>>, "")>>

\* a choice with text, tool-call fragments (one of a call that never gets a
\* name) and the finish signal, and a second choice after it
ChunkFinish ==
    <<Choice(<<"B">>, <<ToolCall(0, "", "", ArgsRest), ToolCall(1, "call_1", "", <<>>)>>,
             "tool_calls"),
      Choice(<<"C">>, <<>>, "stop")>>

\* a text that ends in the first character of a marker
ChunkMarkerStart == <<Choice(<<"D", "<">>, <<>>, "")>>

ChunkKinds == {ChunkText, ChunkOpenCall, ChunkCloseCall, ChunkFinish, ChunkMarkerStart}

RECURSIVE StreamsOf(_)
StreamsOf(n) ==
    IF n = 0 THEN {<<>>}
    ELSE LET shorter == StreamsOf(n - 1)
         IN shorter \cup {st \o <<c>> : st \in shorter, c \in ChunkKinds}

\* five chunks: a text, a call that is open after the second, then its end
FiveChunks == <<ChunkText, ChunkOpenCall, ChunkCloseCall, ChunkFinish, ChunkText>>

Streams == StreamsOf(MaxChunks) \cup {FiveChunks}

PipeStart(streams) ==
    /\ stream \in streams
    /\ delivered = 0
    /\ transport = "idle"
    /\ pcGen = "start"
    /\ listening = FALSE
    /\ cancelRequested = FALSE
    /\ pcDrv = "start"
    /\ choices = <<>>

PipeIdle == PipeStart({<<>>})

\* provider.ts 559-560: the locals of a call of streamResponse on entry,
\* with the chunks its stream is going to carry and the parts its progress
\* has received
NewCall(chunksToCome) ==
    [stream |-> chunksToCome, delivered |-> 0, pc |-> "awaiting",
     thinkingState |-> InitialThinkingState, toolCallBuilders |-> <<>>, progress |-> <<>>]

CallsStart(streams) ==
    /\ calls \in [Responses -> {NewCall(st) : st \in streams}]
    /\ thread = 0

CallsIdle == CallsStart({<<>>})

(***************************************************************************)
(* The texts of the think machine: every concatenation of at most          *)
(* MaxPieces pieces; a run cuts the chosen text into fragments anywhere.   *)
(***************************************************************************)
Pieces == {THINK_OPEN, THINK_CLOSE, <<"A">>, <<"B">>, <<"<">>}

RECURSIVE TextsOf(_)
TextsOf(n) ==
    IF n = 0 THEN {<<>>}
    ELSE LET shorter == TextsOf(n - 1)
         IN shorter \cup {t \o p : t \in shorter, p \in Pieces}

Texts == TextsOf(MaxPieces)

(***************************************************************************)
(* processThinkingContent (provider.ts 450-480), one action per pass       *)
(* through the while loop.                                                 *)
(***************************************************************************)
ThinkStart(texts) ==
    /\ text \in texts
    /\ pos = 0
    /\ thinkingState = InitialThinkingState
    /\ pcThink = "idle"
    /\ output = <<>>
    /\ buffer = <<>>
    /\ insideThinking = FALSE
    /\ emitted = <<>>

ToolsStart(scriptChoices) ==
    /\ scripts \in scriptChoices
    /\ taken = [i \in Indices |-> 0]
    /\ flushedAt = [i \in Indices |-> 0]
    /\ toolCallBuilders = <<>>
    /\ sink = <<>>
    /\ lastOps = <<>>

\* a component that takes no part in a specification: no input for it
ThinkIdle == ThinkStart({<<>>})

ToolsIdle == ToolsStart({[i \in Indices |-> <<>>]})

InitThink == ThinkStart(Texts) /\ ToolsIdle /\ DecIdle /\ ErrIdle /\ PipeIdle /\ CallsIdle

\* lines 454-456: the call with the next fragment of n characters
processThinkingContentEnter ==
    /\ pcThink = "idle"
    /\ \E n \in 1..(Len(text) - pos) :
        /\ buffer' = thinkingState.buffer \o SubSeq(text, pos + 1, pos + n)
        /\ pos' = pos + n
    /\ output' = <<>>
    /\ insideThinking' = thinkingState.insideThinking
    /\ pcThink' = "loop"
    /\ UNCHANGED <<text, thinkingState, emitted, notThink>>

\* lines 459-466: the sought marker occurs in full
processThinkingContentMarker ==
    /\ pcThink = "loop"
    /\ Len(buffer) > 0
    /\ LET marker == SoughtMarker(insideThinking)
           markerIndex == IndexOf(buffer, marker)
       IN /\ markerIndex >= 0
          /\ output' = output \o appendThinkingSegment(Take(buffer, markerIndex), insideThinking)
          /\ buffer' = AfterMarker(buffer, markerIndex, marker)
          /\ insideThinking' = ~insideThinking
    /\ UNCHANGED <<text, pos, thinkingState, pcThink, emitted, notThink>>

\* lines 468-473: no marker and no partial suffix
processThinkingContentPlain ==
    /\ pcThink = "loop"
    /\ Len(buffer) > 0
    /\ LET marker == SoughtMarker(insideThinking)
       IN /\ IndexOf(buffer, marker) < 0
          /\ getPartialSuffixLength(buffer, marker) = 0
    /\ output' = output \o buffer
    /\ buffer' = <<>>
    /\ UNCHANGED <<text, pos, thinkingState, pcThink, insideThinking, emitted, notThink>>

\* lines 468, 475-477: no marker, a partial suffix; the loop goes on
processThinkingContentPartial ==
    /\ pcThink = "loop"
    /\ Len(buffer) > 0
    /\ LET marker == SoughtMarker(insideThinking)
           partialSuffixLength == getPartialSuffixLength(buffer, marker)
       IN /\ IndexOf(buffer, marker) < 0
          /\ partialSuffixLength # 0
          /\ output' = output \o Take(buffer, Len(buffer) - partialSuffixLength)
          /\ buffer' = LastN(buffer, partialSuffixLength)
    /\ UNCHANGED <<text, pos, thinkingState, pcThink, insideThinking, emitted, notThink>>

\* lines 458, 479: the loop condition fails and the call returns
processThinkingContentReturn ==
    /\ pcThink = "loop"
    /\ Len(buffer) = 0
    /\ thinkingState' = [buffer |-> buffer, insideThinking |-> insideThinking]
    /\ emitted' = emitted \o output
    /\ pcThink' = "idle"
    /\ UNCHANGED <<text, pos, output, buffer, insideThinking, notThink>>

NextThink ==
    \/ processThinkingContentEnter
    \/ processThinkingContentMarker
    \/ processThinkingContentPlain
    \/ processThinkingContentPartial
    \/ processThinkingContentReturn

SpecThink == InitThink /\ [][NextThink]_vars

(***************************************************************************)
(* The accumulator's operations as streamResponse performs them.           *)
(***************************************************************************)
LastTwo(ops) == IF Len(ops) <= 2 THEN ops ELSE SubSeq(ops, Len(ops) - 1, Len(ops))

\* how many of the first k entries of the index sequence is are i
CountIn(is, k, i) == Cardinality({j \in 1..k : is[j] = i})

\* the delta.tool_calls whose k-th call is the next fragment of index is[k]
CallsFor(is) ==
    [k \in 1..Len(is) |->
        LET f == scripts[is[k]][taken[is[k]] + CountIn(is, k, is[k])]
        IN [index |-> is[k], id |-> f.id, name |-> f.name, arguments |-> f.arguments]]

IndexSeqs == UNION {[1..n -> Indices] : n \in 1..MaxCalls}

\* line 579: collectToolCalls on a delta that carries tool-call fragments
ToolCallsDelta ==
    /\ \E is \in IndexSeqs :
        /\ \A i \in Indices : taken[i] + CountIn(is, Len(is), i) <= Len(scripts[i])
        /\ toolCallBuilders' = collectToolCalls(CallsFor(is), toolCallBuilders)
        /\ taken' = [i \in Indices |-> taken[i] + CountIn(is, Len(is), i)]
    /\ lastOps' = LastTwo(Append(lastOps, "collect"))
    /\ UNCHANGED <<scripts, flushedAt, sink, notTools>>

\* lines 580-582 and 586: reportToolCalls on a finish signal or at stream end
ToolCallsFlush ==
    /\ LET r == reportToolCalls(sink, toolCallBuilders)
       IN /\ sink' = r.progress
          /\ toolCallBuilders' = r.builders
    /\ flushedAt' = taken
    /\ lastOps' = LastTwo(Append(lastOps, "report"))
    /\ UNCHANGED <<scripts, taken, notTools>>

InitTools ==
    ThinkIdle /\ ToolsStart(ScriptChoices) /\ DecIdle /\ ErrIdle /\ PipeIdle /\ CallsIdle

NextTools ==
    \/ ToolCallsDelta
    \/ ToolCallsFlush

SpecTools == InitTools /\ [][NextTools]_vars

(***************************************************************************)
(* The accumulator of the earlier version: the same collection             *)
(* (provider.ts 146-163) and the flush on the finish signal.               *)
(***************************************************************************)
\* provider.ts 165-182: finish_reason is "tool_calls"
ToolCallsFinishV1 ==
    /\ sink' = sink \o ReportedPartsV1(toolCallBuilders)
    /\ toolCallBuilders' = <<>>
    /\ flushedAt' = taken
    /\ lastOps' = LastTwo(Append(lastOps, "report"))
    /\ UNCHANGED <<scripts, taken, notTools>>

NextToolsV1 ==
    \/ ToolCallsDelta
    \/ ToolCallsFinishV1

SpecToolsV1 == InitTools /\ [][NextToolsV1]_vars

(***************************************************************************)
(* streamChat (api.ts 145-181) from the first reader.read() on.            *)
(***************************************************************************)
\* lines 126-139: fetch resolves with a status that is not a success; the
\* body is read as text and decoded when it is JSON
streamChatFailureResponse ==
    /\ pcDec = "fetch"
    /\ ~ResponseOk(response)
    /\ decRaised' = failureResponseError(response.status, wire)
    /\ pcDec' = "threw"
    /\ UNCHANGED <<wire, rpos, lineBuffer, lines, chunks, response, reader, readerCancelled,
                   notDec>>

\* lines 141-143: a success without a body
streamChatNoBody ==
    /\ pcDec = "fetch"
    /\ ResponseOk(response)
    /\ ~response.hasBody
    /\ decRaised' = GlmApiError(<<"No response body">>, 0, Undefined)
    /\ pcDec' = "threw"
    /\ UNCHANGED <<wire, rpos, lineBuffer, lines, chunks, response, reader, readerCancelled,
                   notDec>>

\* lines 145-149: a success with a body; the reader is taken and the loop
\* is entered
streamChatResponse ==
    /\ pcDec = "fetch"
    /\ ResponseOk(response)
    /\ response.hasBody
    /\ reader' = "locked"
    /\ pcDec' = "lines"
    /\ UNCHANGED <<wire, rpos, lineBuffer, lines, chunks, response, readerCancelled,
                   decRaised, notDec>>

\* the caller cancels the token while streamChat is running
streamChatTokenCancelled ==
    /\ ~cancelRequested
    /\ pcDec \in {"fetch", "read", "lines", "yielded"}
    /\ cancelRequested' = TRUE
    /\ UNCHANGED <<decVars, thinkVars, toolVars, errVars, callVars,
                   stream, delivered, transport, pcGen, listening, pcDrv, choices>>

\* lines 156-161: a read delivers the next n characters
streamChatRead ==
    /\ pcDec = "read"
    /\ \E n \in 1..(Len(wire) - rpos) :
        \E segments \in {SplitLines(lineBuffer \o SubSeq(wire, rpos + 1, rpos + n))} :
           /\ rpos' = rpos + n
           /\ lineBuffer' = HeldBack(segments)
           /\ lines' = SubSeq(segments, 1, Len(segments) - 1)
    /\ pcDec' = "lines"
    /\ UNCHANGED <<wire, chunks, response, reader, readerCancelled, decRaised, notDec>>

\* lines 156-157 and 178-180: the transport has closed, read() reports done
streamChatReadDone ==
    /\ pcDec = "read"
    /\ rpos = Len(wire)
    /\ chunks' = chunks \o YieldedAtClose(lineBuffer)
    /\ pcDec' = "done"
    /\ reader' = "released"
    /\ UNCHANGED <<wire, rpos, lineBuffer, lines, response, readerCancelled,
                   decRaised, notDec>>

\* lines 163-176 and 178-180: the for loop visits the next line
streamChatLine ==
    /\ pcDec = "lines"
    /\ Len(lines) > 0
    /\ \E step \in {decodeLine(Head(lines))} :
          /\ chunks' = IF step.kind = "yield" THEN Append(chunks, step.chunk) ELSE chunks
          /\ pcDec' = IF step.kind = "return" THEN "done"
                      ELSE IF step.kind = "yield" THEN "yielded" ELSE "lines"
          /\ lines' = IF step.kind = "return" THEN <<>> ELSE Tail(lines)
          /\ reader' = IF step.kind = "return" THEN "released" ELSE reader
    /\ UNCHANGED <<wire, rpos, lineBuffer, response, readerCancelled, decRaised, notDec>>

\* provider.ts 131-132: the loop of the caller takes the chunk and asks for
\* the next one
callerTakesChunk ==
    /\ pcDec = "yielded"
    /\ ~cancelRequested
    /\ pcDec' = "lines"
    /\ UNCHANGED <<wire, rpos, lineBuffer, lines, chunks, response, reader, readerCancelled,
                   decRaised, notDec>>

\* provider.ts 132 and api.ts 178-180: the loop of the caller breaks on the
\* cancelled token; the generator is closed at its yield, its finally runs
callerBreaks ==
    /\ pcDec = "yielded"
    /\ cancelRequested
    /\ pcDec' = "closed"
    /\ reader' = "released"
    /\ UNCHANGED <<wire, rpos, lineBuffer, lines, chunks, response, readerCancelled,
                   decRaised, notDec>>

\* lines 150-156: the for loop is over, the token is not cancelled, the
\* while loop reads again
streamChatNextRead ==
    /\ pcDec = "lines"
    /\ Len(lines) = 0
    /\ ~cancelRequested
    /\ pcDec' = "read"
    /\ UNCHANGED <<wire, rpos, lineBuffer, lines, chunks, response, reader, readerCancelled,
                   decRaised, notDec>>

\* lines 151-154 and 178-180: the token is cancelled at the head of the
\* while loop
streamChatCancelled ==
    /\ pcDec = "lines"
    /\ Len(lines) = 0
    /\ cancelRequested
    /\ readerCancelled' = TRUE
    /\ reader' = "released"
    /\ pcDec' = "cancelled"
    /\ UNCHANGED <<wire, rpos, lineBuffer, lines, chunks, response, decRaised, notDec>>

InitDecode ==
    ThinkIdle /\ ToolsIdle /\ DecStart(Exchanges(Wires)) /\ ErrIdle /\ PipeIdle /\ CallsIdle

NextDecode ==
    \/ streamChatFailureResponse
    \/ streamChatNoBody
    \/ streamChatResponse
    \/ streamChatTokenCancelled
    \/ callerTakesChunk
    \/ callerBreaks
    \/ streamChatRead
    \/ streamChatReadDone
    \/ streamChatLine
    \/ streamChatNextRead
    \/ streamChatCancelled

SpecDecode == InitDecode /\ [][NextDecode]_vars

(***************************************************************************)
(* provideLanguageModelChatResponse (provider.ts 537-548) once             *)
(* streamResponse is running, for each response in flight, and the         *)
(* commands that change the stored credential (part_001 16-31).            *)
(***************************************************************************)
\* line 538 resolves: the response completes
responseCompletes(r) ==
    /\ pcResp[r] = "streaming"
    /\ pcResp' = [pcResp EXCEPT ![r] = "completed"]
    /\ UNCHANGED <<raised, thrown, deleteCalls, deleteReturns, secret, notErr>>

\* lines 538 and 546: streamResponse rejects with error
responseFails(r) ==
    /\ pcResp[r] = "streaming"
    /\ \E error \in TransportErrors \cup OtherErrors :
        raised' = [raised EXCEPT ![r] = error]
    /\ pcResp' = [pcResp EXCEPT ![r] = "caught"]
    /\ UNCHANGED <<thrown, deleteCalls, deleteReturns, secret, notErr>>

\* lines 547 and 660-674: throwMappedError up to its throw or its await
responseMapsError(r) ==
    /\ pcResp[r] = "caught"
    /\ LET mapped == throwMappedError(raised[r])
       IN IF mapped.deletes
          THEN /\ deleteCalls' = [deleteCalls EXCEPT ![r] = @ + 1]
               /\ pcResp' = [pcResp EXCEPT ![r] = "deleting"]
               /\ UNCHANGED thrown
          ELSE /\ thrown' = [thrown EXCEPT ![r] = mapped.throws]
               /\ pcResp' = [pcResp EXCEPT ![r] = "thrown"]
               /\ UNCHANGED deleteCalls
    /\ UNCHANGED <<raised, deleteReturns, secret, notErr>>

\* auth.ts 16-18: the secret store carries out the deletion
responseDeleteTakesEffect(r) ==
    /\ pcResp[r] = "deleting"
    /\ secret' = ""
    /\ pcResp' = [pcResp EXCEPT ![r] = "deleted"]
    /\ deleteReturns' = [deleteReturns EXCEPT ![r] = @ + 1]
    /\ UNCHANGED <<raised, thrown, deleteCalls, notErr>>

\* lines 666-667: the await returns and the mapped error is thrown
responseThrowsAfterDelete(r) ==
    /\ pcResp[r] = "deleted"
    /\ thrown' = [thrown EXCEPT ![r] = throwMappedError(raised[r]).throws]
    /\ pcResp' = [pcResp EXCEPT ![r] = "thrown"]
    /\ UNCHANGED <<raised, deleteCalls, deleteReturns, secret, notErr>>

\* part_001 16-21 and auth.ts 12-14: the user stores a key
userSetsApiKey ==
    /\ \E key \in Secrets \ {""} : secret' = key
    /\ UNCHANGED <<pcResp, raised, thrown, deleteCalls, deleteReturns, notErr>>

InitErr == ThinkIdle /\ ToolsIdle /\ DecIdle /\ ErrStart(Secrets) /\ PipeIdle /\ CallsIdle

NextErr ==
    \/ \E r \in Responses : responseCompletes(r)
    \/ \E r \in Responses : responseFails(r)
    \/ \E r \in Responses : responseMapsError(r)
    \/ \E r \in Responses : responseDeleteTakesEffect(r)
    \/ \E r \in Responses : responseThrowsAfterDelete(r)
    \/ userSetsApiKey

SpecErr == InitErr /\ [][NextErr]_vars

(***************************************************************************)
(* What the OpenAI client gives streamChat (part_002 208-213): a rejection *)
(* of create is [isAPIError, status, message, error], status -1 when the   *)
(* error carries none.                                                     *)
(***************************************************************************)
APIError(status, message, error) ==
    [isAPIError |-> TRUE, status |-> status, message |-> message, error |-> error]

OtherFailure(message) ==
    [isAPIError |-> FALSE, status |-> -1, message |-> message, error |-> Undefined]

\* the client's error for a request whose signal was aborted
APIUserAbortError == APIError(-1, <<"Request was aborted.">>, Undefined)

StatusString(status) ==
    IF status = 401 THEN "401"
    ELSE IF status = 429 THEN "429"
    ELSE IF status = 500 THEN "500"
    ELSE "undefined"

\* part_002 176-195
toGlmApiError(value) ==
    IF value.isAPIError
    THEN GlmApiError(<<"GLM API error: ", StatusString(value.status), " ">> \o value.message,
                     IF value.status = -1 THEN 0 ELSE value.status,
                     value.error)
    ELSE GlmApiError(<<"GLM API error: ">> \o value.message, 0, Undefined)

ErrorPayload == JsonBody(JObject(<<JKid(<<"c", "o", "d", "e">>, JNumber(<<"1">>))>>))

CreateFailures ==
    {APIError(c, <<"status code (no body)">>, ErrorPayload) : c \in {401, 429, 500}}
        \cup {APIError(-1, <<"Connection error.">>, Undefined),
              OtherFailure(<<"fetch failed">>)}

\* faulty variant of OnCancellation: the loop is left and the code after it runs
OnCancellationFlushing(progress, builders) == reportToolCalls(progress, builders)

\* provider.ts 573-575: return, nothing more is reported
OnCancellation(progress, builders) == [progress |-> progress, builders |-> builders]

\* faulty variant of AtStreamEnd: a block left open is closed for the reader
AtStreamEndClosing(state, progress) ==
    IF state.insideThinking
    THEN Append(progress, LanguageModelTextPart(THINK_CLOSE_MARKDOWN))
    ELSE progress

\* provider.ts 584-586: between the end of the loop and the call of
\* reportToolCalls nothing is reported for thinkingState
AtStreamEnd(state, progress) == progress

\* faulty variant of AfterLoop: nothing follows the loop
AfterLoopNothing(progress, builders) == [progress |-> progress, builders |-> builders]

\* provider.ts 586: the call after the loop
AfterLoop(progress, builders) == reportToolCalls(progress, builders)

(***************************************************************************)
(* The response pipeline: provideLanguageModelChatResponse (provider.ts    *)
(* 520-549) as response 1, its streamResponse (551-587) and the generator  *)
(* streamChat (part_002 197-227).  Every await is a point where the token  *)
(* may be cancelled and the transport may move.                            *)
(***************************************************************************)
\* provider.ts 559-572 and part_002 203-213: the first next() runs the
\* generator up to its await of create
streamResponseStart ==
    /\ pcDrv = "start"
    /\ pcResp[1] = "streaming"
    /\ pcDrv' = "awaiting"
    /\ pcGen' = "creating"
    /\ listening' = TRUE
    /\ transport' = "requested"
    /\ thinkingState' = InitialThinkingState
    /\ toolCallBuilders' = <<>>
    /\ UNCHANGED <<stream, delivered, cancelRequested, choices, sink, errVars, notPipe>>

\* the caller cancels the token; part_002 203-205: a registered listener
\* aborts the request at once
requestCancellation ==
    /\ ~cancelRequested
    /\ pcResp[1] = "streaming"
    /\ cancelRequested' = TRUE
    /\ transport' = IF listening /\ transport \in {"requested", "open"}
                    THEN "aborted" ELSE transport
    /\ UNCHANGED <<stream, delivered, pcGen, listening, pcDrv, choices,
                   thinkingState, toolCallBuilders, sink, errVars, notPipe>>

\* part_002 203-205: a listener registered on a token that was cancelled
\* before is called from a timer
cancellationListenerRuns ==
    /\ listening
    /\ cancelRequested
    /\ transport \in {"requested", "open"}
    /\ transport' = "aborted"
    /\ UNCHANGED <<stream, delivered, pcGen, listening, cancelRequested, pcDrv, choices,
                   thinkingState, toolCallBuilders, sink, errVars, notPipe>>

\* part_002 208-213: create resolves with the stream
createResolves ==
    /\ pcGen = "creating"
    /\ transport = "requested"
    /\ transport' = "open"
    /\ pcGen' = "iterating"
    /\ UNCHANGED <<stream, delivered, listening, cancelRequested, pcDrv, choices,
                   thinkingState, toolCallBuilders, sink, errVars, notPipe>>

\* part_002 221-225 and provider.ts 546: create rejects, the generator
\* throws the GlmApiError, streamResponse rejects with it
createRejects ==
    /\ pcGen = "creating"
    /\ \/ /\ transport = "requested"
          /\ \E failure \in CreateFailures :
                raised' = [raised EXCEPT ![1] = toGlmApiError(failure)]
          /\ transport' = "failed"
       \/ /\ transport = "aborted"
          /\ raised' = [raised EXCEPT ![1] = toGlmApiError(APIUserAbortError)]
          /\ UNCHANGED transport
    /\ pcGen' = "threw"
    /\ listening' = FALSE
    /\ pcDrv' = "failed"
    /\ pcResp' = [pcResp EXCEPT ![1] = "caught"]
    /\ UNCHANGED <<stream, delivered, cancelRequested, choices,
                   thinkingState, toolCallBuilders, sink,
                   thrown, deleteCalls, deleteReturns, secret, notPipe>>

\* part_002 215-219: the client's stream hands over the next chunk and the
\* token is not cancelled: the generator yields it
streamChatYields ==
    /\ pcGen = "iterating"
    /\ transport = "open"
    /\ delivered < Len(stream)
    /\ ~cancelRequested
    /\ delivered' = delivered + 1
    /\ pcGen' = "yielded"
    /\ pcDrv' = "check"
    /\ UNCHANGED <<stream, transport, listening, cancelRequested, choices,
                   thinkingState, toolCallBuilders, sink, errVars, notPipe>>

\* part_002 215-218 and 223-225, provider.ts 586: the generator ends, because
\* the token is cancelled when a chunk arrives, or the stream is over, or the
\* aborted stream ends; then the loop of streamResponse ends
streamChatEnds ==
    /\ pcGen = "iterating"
    /\ \/ /\ transport = "open"
          /\ delivered < Len(stream)
          /\ cancelRequested
          /\ UNCHANGED transport
       \/ /\ transport = "open"
          /\ delivered = Len(stream)
          /\ transport' = "ended"
       \/ /\ transport = "aborted"
          /\ UNCHANGED transport
    /\ pcGen' = "done"
    /\ listening' = FALSE
    /\ \E r \in {AfterLoop(AtStreamEnd(thinkingState, sink), toolCallBuilders)} :
          /\ sink' = r.progress
          /\ toolCallBuilders' = r.builders
    /\ pcDrv' = "returned"
    /\ pcResp' = [pcResp EXCEPT ![1] = "completed"]
    /\ UNCHANGED <<stream, delivered, cancelRequested, choices, thinkingState,
                   raised, thrown, deleteCalls, deleteReturns, secret, notPipe>>

\* provider.ts 573-575 and part_002 223-225: the token is cancelled when
\* streamResponse looks at the chunk
streamResponseCancelled ==
    /\ pcDrv = "check"
    /\ cancelRequested
    /\ \E r \in {OnCancellation(sink, toolCallBuilders)} :
          /\ sink' = r.progress
          /\ toolCallBuilders' = r.builders
    /\ pcDrv' = "cancelled"
    /\ pcGen' = "done"
    /\ listening' = FALSE
    /\ pcResp' = [pcResp EXCEPT ![1] = "completed"]
    /\ UNCHANGED <<stream, delivered, transport, cancelRequested, choices, thinkingState,
                   raised, thrown, deleteCalls, deleteReturns, secret, notPipe>>

\* provider.ts 573-577: the token is not cancelled, the loop over the
\* choices of the chunk begins
streamResponseChunk ==
    /\ pcDrv = "check"
    /\ ~cancelRequested
    /\ choices' = stream[delivered]
    /\ pcDrv' = "choices"
    /\ UNCHANGED <<stream, delivered, transport, pcGen, listening, cancelRequested,
                   thinkingState, toolCallBuilders, sink, errVars, notPipe>>

\* provider.ts 577-583: one choice
streamResponseChoice ==
    /\ pcDrv = "choices"
    /\ Len(choices) > 0
    /\ \E r \in {processChoice(Head(choices), thinkingState, toolCallBuilders, sink)} :
          /\ r.returns
          /\ thinkingState' = r.state
          /\ toolCallBuilders' = r.builders
          /\ sink' = r.progress
    /\ choices' = Tail(choices)
    /\ UNCHANGED <<stream, delivered, transport, pcGen, listening, cancelRequested, pcDrv,
                   errVars, notPipe>>

\* provider.ts 578 and 458-477: processThinkingContent does not return
streamResponseChoiceSpins ==
    /\ pcDrv = "choices"
    /\ Len(choices) > 0
    /\ choices[1].content # <<>>
    /\ ~processThinkingContent(choices[1].content, thinkingState).returns
    /\ pcDrv' = "spinning"
    /\ UNCHANGED <<stream, delivered, transport, pcGen, listening, cancelRequested, choices,
                   thinkingState, toolCallBuilders, sink, errVars, notPipe>>

\* provider.ts 572 and part_002 215: the choices are done, the next chunk is
\* asked for
streamResponseNext ==
    /\ pcDrv = "choices"
    /\ Len(choices) = 0
    /\ pcDrv' = "awaiting"
    /\ pcGen' = "iterating"
    /\ UNCHANGED <<stream, delivered, transport, listening, cancelRequested, choices,
                   thinkingState, toolCallBuilders, sink, errVars, notPipe>>

InitPipe ==
    /\ ThinkIdle
    /\ ToolsIdle
    /\ DecIdle
    /\ ErrStart({"key-1"})
    /\ PipeStart(Streams)
    /\ CallsIdle

NextPipe ==
    \/ streamResponseStart
    \/ requestCancellation
    \/ cancellationListenerRuns
    \/ createResolves
    \/ createRejects
    \/ streamChatYields
    \/ streamChatEnds
    \/ streamResponseCancelled
    \/ streamResponseChunk
    \/ streamResponseChoice
    \/ streamResponseChoiceSpins
    \/ streamResponseNext
    \/ responseMapsError(1)
    \/ responseDeleteTakesEffect(1)
    \/ responseThrowsAfterDelete(1)

SpecPipe == InitPipe /\ [][NextPipe]_vars

(***************************************************************************)
(* Two calls of provideLanguageModelChatResponse in flight on one provider *)
(* (provider.ts 520-587).  The calls share the one thread of the extension *)
(* host: between two awaits the code of a call runs without interruption, *)
(* so a step is the handling of one chunk from `for await` to `for await`, *)
(* and a call whose synchronous code does not return keeps the thread.     *)
(***************************************************************************)
\* provider.ts 577-583: the loop over the choices of one chunk
RECURSIVE processChoices(_, _, _, _), processChoicesAfter(_, _)
processChoices(cs, state, builders, progress) ==
    IF Len(cs) = 0
    THEN [returns |-> TRUE, state |-> state, builders |-> builders, progress |-> progress]
    ELSE IF Head(cs).content # <<>> /\ ~processThinkingContent(Head(cs).content, state).returns
    THEN [returns |-> FALSE, state |-> state, builders |-> builders, progress |-> progress]
    ELSE processChoicesAfter(Tail(cs), processChoice(Head(cs), state, builders, progress))

processChoicesAfter(cs, done) == processChoices(cs, done.state, done.builders, done.progress)

CallAfterChunk(call, result) ==
    [call EXCEPT !.delivered = @ + 1,
                 !.thinkingState = result.state,
                 !.toolCallBuilders = result.builders,
                 !.progress = result.progress,
                 !.pc = IF result.returns THEN "awaiting" ELSE "spinning"]

CallAfterLoop(call, result) ==
    [call EXCEPT !.toolCallBuilders = result.builders,
                 !.progress = result.progress,
                 !.pc = "returned"]

\* provider.ts 572-584: call r is resumed with the next chunk of its stream
\* and handles it up to the next await
callHandlesChunk(r) ==
    /\ thread = 0
    /\ calls[r].pc = "awaiting"
    /\ calls[r].delivered < Len(calls[r].stream)
    /\ \E result \in {processChoices(calls[r].stream[calls[r].delivered + 1],
                                      calls[r].thinkingState, calls[r].toolCallBuilders,
                                      calls[r].progress)} :
          /\ calls' = [calls EXCEPT ![r] = CallAfterChunk(calls[r], result)]
          /\ thread' = IF result.returns THEN 0 ELSE r
    /\ UNCHANGED notCalls

\* provider.ts 572 and 586: the stream of call r is over, the loop ends
callStreamEnds(r) ==
    /\ thread = 0
    /\ calls[r].pc = "awaiting"
    /\ calls[r].delivered = Len(calls[r].stream)
    /\ \E result \in {AfterLoop(AtStreamEnd(calls[r].thinkingState, calls[r].progress),
                                 calls[r].toolCallBuilders)} :
          calls' = [calls EXCEPT ![r] = CallAfterLoop(calls[r], result)]
    /\ UNCHANGED <<thread, notCalls>>

InitCalls ==
    /\ ThinkIdle
    /\ ToolsIdle
    /\ DecIdle
    /\ ErrIdle
    /\ PipeIdle
    /\ CallsStart(StreamsOf(MaxChunksEach))

NextCalls ==
    \/ \E r \in Responses : callHandlesChunk(r)
    \/ \E r \in Responses : callStreamEnds(r)

SpecCalls == InitCalls /\ [][NextCalls]_vars

\* the synchronous loop runs to completion and the caller feeds every fragment
FairSpecThink == SpecThink /\ WF_vars(NextThink)

(***************************************************************************)
(* Reference notions for the think machine's claims.                       *)
(***************************************************************************)
\* the fragments fed so far, concatenated
Fed == Take(text, pos)

\* no step of the think machine can change the state
ThinkQuiescent == ~ENABLED <<NextThink>>_vars

\* one invocation on the whole text, from the initial state
OneShot == processThinkingContentV1(text, InitialThinkingState)

IsDecoration(u) == <<u>> = THINK_OPEN_MARKDOWN \/ <<u>> = THINK_CLOSE_MARKDOWN

StripDecorations(s) == SelectSeq(s, LAMBDA u : ~IsDecoration(u))

\* s without the markers a left-to-right scan consumes: the first open marker,
\* then the first close marker after it, and so on
RECURSIVE RemoveMarkers(_, _)
RemoveMarkers(s, inside) ==
    LET marker == IF inside THEN THINK_CLOSE ELSE THINK_OPEN
        idx == IndexOf(s, marker)
    IN IF idx < 0 THEN s
       ELSE Take(s, idx) \o RemoveMarkers(Drop(s, idx + Len(marker)), ~inside)

ExampleText == THINK_OPEN \o <<"A">> \o THINK_CLOSE \o <<"B">>

ExampleResult == THINK_OPEN_MARKDOWN \o <<"A">> \o THINK_CLOSE_MARKDOWN \o <<"B">>

\* C1: for every text and every way of cutting it into fragments, the run of
\* invocations comes to rest only with every fragment fed and returned, the
\* concatenated outputs and the final state being those of one invocation on
\* the whole text (for <think>A</think>B: open decoration, A, close
\* decoration, B).
C1_SplitIndependence ==
    ThinkQuiescent =>
        /\ pos = Len(text)
        /\ pcThink = "idle"
        /\ emitted = OneShot.output
        /\ thinkingState = OneShot.state
        /\ (text = ExampleText => emitted = ExampleResult)

\* C2: an invocation whose working buffer holds no full sought marker and is,
\* after everything before it has been emitted, exactly a non-empty proper
\* prefix of that marker, stops the round: the call goes on to return instead
\* of standing at the loop head with nothing left that changes the state.
C2_PartialSuffixStopsRound ==
    ( /\ pcThink = "loop"
      /\ Len(buffer) > 0
      /\ IndexOf(buffer, SoughtMarker(insideThinking)) < 0
      /\ getPartialSuffixLength(buffer, SoughtMarker(insideThinking)) = Len(buffer) )
    => ENABLED <<NextThink>>_vars

\* a sought open (close) marker is cut by the fragment boundary: the working
\* buffer is a proper prefix of it and the unfed text begins with its rest
SplitMarkerPending(inside) ==
    /\ pcThink = "loop"
    /\ insideThinking = inside
    /\ Len(buffer) > 0
    /\ Len(buffer) < Len(SoughtMarker(inside))
    /\ buffer = Take(SoughtMarker(inside), Len(buffer))
    /\ StartsWith(Drop(text, pos), Drop(SoughtMarker(inside), Len(buffer)))

\* C3: a sought marker whose characters are split across consecutive
\* fragments is still detected as a full marker: the flag flips (and the
\* decoration is emitted in its place).
C3_SplitMarkerDetected ==
    /\ SplitMarkerPending(FALSE) ~> (insideThinking /\ Len(output) > 0)
    /\ SplitMarkerPending(TRUE) ~> (~insideThinking /\ Len(output) > 0)

\* C4: after any sequence of invocations, the emitted text without the
\* decorations, followed by the carried buffer, is the text fed so far without
\* the consumed markers.
C4_TextConservation ==
    pcThink = "idle" =>
        StripDecorations(emitted) \o thinkingState.buffer = RemoveMarkers(Fed, FALSE)

\* witness of C4: <think>A</think>B fed in several fragments, the last being B
C4_Witness ==
    /\ pcThink = "idle"
    /\ text = ExampleText
    /\ pos = Len(text)
    /\ output = <<"B">>
    /\ emitted = ExampleResult

(***************************************************************************)
(* Reference notions for the accumulator's claims, computed from the       *)
(* input: the fragments of one index alone, in arrival order.              *)
(***************************************************************************)
\* the fragments collected for index i since the last flush
SinceFlush(i) == SubSeq(scripts[i], flushedAt[i] + 1, taken[i])

RECURSIVE LastIdOf(_)
LastIdOf(frags) ==
    IF Len(frags) = 0 THEN ""
    ELSE IF frags[Len(frags)].id # "" THEN frags[Len(frags)].id
    ELSE LastIdOf(SubSeq(frags, 1, Len(frags) - 1))

RECURSIVE LastNameOf(_)
LastNameOf(frags) ==
    IF Len(frags) = 0 THEN ""
    ELSE IF frags[Len(frags)].name # "" THEN frags[Len(frags)].name
    ELSE LastNameOf(SubSeq(frags, 1, Len(frags) - 1))

RECURSIVE ArgumentsOf(_)
ArgumentsOf(frags) ==
    IF Len(frags) = 0 THEN <<>> ELSE Head(frags).arguments \o ArgumentsOf(Tail(frags))

HasIdAndName(frags) == LastIdOf(frags) # "" /\ LastNameOf(frags) # ""

ExpectedPart(frags) ==
    LanguageModelToolCallPart(LastIdOf(frags), LastNameOf(frags),
                              parseToolArguments(ArgumentsOf(frags)))

ExampleScript(i) ==
    <<Fragment(CallIdOf(i), "f", <<>>), Fragment("", "", ArgsOpen),
      Fragment("", "", ArgsOne), Fragment("", "", ArgsClose)>>

IdOnlyScript(i) == <<Fragment(CallIdOf(i), "", <<>>), Fragment("", "", ArgsEmptyObject)>>

\* the value {"a":1}
ExampleInput == JObject(<<JKid(<<"a">>, JNumber(<<"1">>))>>)

ExamplePart(i) == LanguageModelToolCallPart(CallIdOf(i), "f", ExampleInput)

LastOpIs(op) == Len(lastOps) > 0 /\ lastOps[Len(lastOps)] = op

AllFlushed == \A i \in Indices : taken[i] = Len(scripts[i]) /\ flushedAt[i] = taken[i]

\* C5: whatever the interleaving of the indices, a flush reports exactly one
\* call for each index that has identifier and name, built from that index's
\* own fragments in arrival order: its argument is the parse of their
\* concatenation ({"a":1} for the pieces {"a": , 1 and }).
C5_InterleavingIndependent ==
    [][ (flushedAt' # flushedAt \/ sink' # sink) =>
          LET new == SubSeq(sink', Len(sink) + 1, Len(sink'))
              complete == {i \in Indices : HasIdAndName(SinceFlush(i))}
          IN /\ Len(sink') >= Len(sink)
             /\ SubSeq(sink', 1, Len(sink)) = sink
             /\ Len(new) = Cardinality(complete)
             /\ \E at \in [complete -> 1..Len(new)] :
                   /\ \A i, j \in complete : at[i] = at[j] => i = j
                   /\ \A i \in complete : new[at[i]] = ExpectedPart(SinceFlush(i))
             /\ \A i \in Indices :
                   SinceFlush(i) = ExampleScript(i) =>
                       \E k \in 1..Len(new) : new[k] = ExamplePart(i)
      ]_vars

\* witness of C5: both indices carried the three-piece argument, index 1
\* arrived first, and one flush reported both calls with {"a":1}
C5_Witness ==
    /\ \A i \in Indices : scripts[i] = ExampleScript(i)
    /\ AllFlushed
    /\ sink = <<ExamplePart(1), ExamplePart(0)>>

\* C6: every tool-call part the sink holds has a non-empty identifier and a
\* non-empty name, and a flush leaves no builder behind that lacks one.
C6_OnlyCompleteReported ==
    /\ \A k \in 1..Len(sink) :
          sink[k].kind = "toolCall" => sink[k].callId # "" /\ sink[k].name # ""
    /\ LastOpIs("report") =>
          \A k \in 1..Len(toolCallBuilders) :
              toolCallBuilders[k].id # "" /\ toolCallBuilders[k].name # ""

\* witness of C6: index 0 only ever had an identifier, everything was flushed,
\* and the sink holds the call of index 1 alone
C6_Witness ==
    /\ scripts[0] = IdOnlyScript(0)
    /\ scripts[1] = ExampleScript(1)
    /\ AllFlushed
    /\ LastOpIs("report")
    /\ sink = <<ExamplePart(1)>>
    /\ toolCallBuilders = <<>>

\* C7: after a flush the Map is empty, and a flush that follows a flush with
\* no collect in between reports nothing.
C7_FlushIdempotent ==
    /\ [](LastOpIs("report") => toolCallBuilders = <<>>)
    /\ [][ (LastOpIs("report") /\ taken' = taken /\ lastOps' # lastOps) => sink' = sink ]_vars

\* witness of C7: two flushes in a row, the first of which reported a call
\* and dropped an incomplete builder
C7_Witness ==
    /\ lastOps = <<"report", "report">>
    /\ scripts[0] = ExampleScript(0)
    /\ scripts[1] = IdOnlyScript(1)
    /\ AllFlushed
    /\ sink = <<ExamplePart(0)>>
    /\ toolCallBuilders = <<>>

(***************************************************************************)
(* The decoder's claim.  A record is a line of the body that its newline   *)
(* ends; what the body holds is read off the body as a whole, with no      *)
(* regard to how the reads cut it.                                         *)
(***************************************************************************)
RecordsOf(body) == LET segments == SplitLines(body) IN SubSeq(segments, 1, Len(segments) - 1)

PayloadOf(record) ==
    IF record = LineGoodObject THEN JObject(<<>>) ELSE JNumber(<<"2">>)

WellFormedRecords == {LineGoodObject, LineGoodNumber}

\* the payloads of the well-formed data records ahead of the sentinel, in order
RECURSIVE WellFormedPayloads(_)
WellFormedPayloads(records) ==
    IF records = <<>> \/ Head(records) = LineDone THEN <<>>
    ELSE IF Head(records) \in WellFormedRecords
         THEN <<PayloadOf(Head(records))>> \o WellFormedPayloads(Tail(records))
         ELSE WellFormedPayloads(Tail(records))

IsPrefix(a, b) == Len(a) <= Len(b) /\ a = SubSeq(b, 1, Len(a))

MalformedBetween == LineGoodObject \o <<"\n">> \o LineMalformed \o <<"\n">> \o LineGoodNumber \o <<"\n">>

\* C8: a data record whose payload does not parse is passed over, the
\* decoder neither stops nor raises: whatever it has yielded is the start
\* of the well-formed records' payloads in their order, a decoding that
\* ends uncancelled has yielded all of them, and a malformed record
\* between two well-formed ones leaves exactly the two chunks.
C8_MalformedSkipped ==
    /\ (ResponseOk(response) /\ response.hasBody) => decRaised = NoError
    /\ IsPrefix(chunks, WellFormedPayloads(RecordsOf(wire)))
    /\ pcDec = "done" => chunks = WellFormedPayloads(RecordsOf(wire))
    /\ (pcDec = "done" /\ wire = MalformedBetween)
           => chunks = <<JObject(<<>>), JNumber(<<"2">>)>>

C8_Witness ==
    /\ pcDec = "done"
    /\ wire = MalformedBetween
    /\ Len(chunks) = 2

(***************************************************************************)
(* The classifier's claims.                                                *)
(***************************************************************************)
FailedWith(r, statusCode) == raised[r].isGlmApiError /\ raised[r].statusCode = statusCode

Propagated(r) == pcResp[r] = "thrown"

\* C9: when a response fails with a transport failure of status 401,
\* deleteApiKey is invoked exactly once for it, the deletion has resolved
\* by the time anything propagates to the caller, and what propagates is
\* the "Invalid API key" error.
C9_UnauthorizedDeletesKey ==
    \A r \in Responses :
        FailedWith(r, 401) =>
            /\ deleteCalls[r] <= 1
            /\ thrown[r] # NoError => Propagated(r)
            /\ Propagated(r) =>
                   /\ deleteCalls[r] = 1
                   /\ deleteReturns[r] = 1
                   /\ thrown[r] = InvalidKeyError

C9_Witness ==
    \E r \in Responses :
        /\ FailedWith(r, 401)
        /\ Propagated(r)
        /\ deleteCalls[r] = 1
        /\ thrown[r] = InvalidKeyError

C10_NoDeleteInvoked ==
    \A r \in Responses :
        FailedWith(r, 429) =>
            /\ deleteCalls[r] = 0
            /\ Propagated(r) => thrown[r] = RateLimitError

C10_CredentialKept ==
    \A r \in Responses :
        (FailedWith(r, 429)' /\ pcResp'[r] # pcResp[r]) => secret' = secret

\* C10: when a response fails with a transport failure of status 429, the
\* "Rate limit exceeded" error propagates, deleteApiKey is never invoked
\* for it, and no step of that response changes the stored credential.
C10_RateLimitKeepsKey == []C10_NoDeleteInvoked /\ [][C10_CredentialKept]_vars

C10_Witness ==
    \E r \in Responses :
        /\ FailedWith(r, 429)
        /\ Propagated(r)
        /\ thrown[r] = RateLimitError
        /\ secret # ""

(***************************************************************************)
(* The claims about streamResponse.                                        *)
(***************************************************************************)
\* the parts a step adds to the sink
NewParts == SubSeq(sink', Len(sink) + 1, Len(sink'))

IsToolCallPart(part) == part.kind = "toolCall"

\* a step of streamResponse that completes one choice of the current chunk
ChoiceStep == pcDrv = "choices" /\ Len(choices) > 0 /\ choices' = Tail(choices)

\* the step in which streamResponse sees the cancelled token at line 573
ObservedStep == pcDrv = "check" /\ pcDrv' = "cancelled"

\* the parts of the first two chunks of FiveChunks
FirstTwoParts == <<LanguageModelTextPart(THINK_OPEN_MARKDOWN \o <<"A">>)>>

C11_NothingAfterObserved ==
    /\ (ObservedStep \/ pcDrv = "cancelled") => sink' = sink
    /\ pcDrv = "cancelled" => pcDrv' = "cancelled"

C11_ExampleOfFive ==
    (stream = FiveChunks /\ pcDrv = "cancelled" /\ delivered = 3) => sink = FirstTwoParts

\* C11: once streamResponse has seen the cancelled token at its check of a
\* chunk, the sink receives nothing more: nothing of that chunk or a later
\* one, nothing of the carried buffer, nothing of the builders that were
\* not flushed; cancelled at the third of five chunks, the sink holds the
\* parts of the first two.
C11_CancellationStopsOutput == []C11_ExampleOfFive /\ [][C11_NothingAfterObserved]_vars

C11_Witness ==
    /\ stream = FiveChunks
    /\ pcDrv = "cancelled"
    /\ delivered = 3
    /\ Len(toolCallBuilders) > 0
    /\ sink = FirstTwoParts

\* the Map after the tool-call fragments of the choice at hand are collected
AfterOwnDeltas == collectToolCalls(choices[1].tool_calls, toolCallBuilders)

ReportsBuilder(parts, builder) ==
    \E j \in 1..Len(parts) :
        parts[j] = LanguageModelToolCallPart(builder.id, builder.name,
                                             parseToolArguments(builder.arguments))

TextBeforeToolCalls(parts) ==
    \A i, j \in 1..Len(parts) :
        (IsToolCallPart(parts[i]) /\ ~IsToolCallPart(parts[j])) => j < i

C12_FinishStep ==
    (ChoiceStep /\ choices[1].finish_reason = "tool_calls") =>
        /\ \A k \in 1..Len(AfterOwnDeltas) :
               (AfterOwnDeltas[k].id # "" /\ AfterOwnDeltas[k].name # "")
                   => ReportsBuilder(NewParts, AfterOwnDeltas[k])
        /\ TextBeforeToolCalls(NewParts)
        /\ toolCallBuilders' = <<>>

\* C12: the step that processes a choice with finish_reason "tool_calls"
\* reports every builder that has id and name, the fragments of that very
\* choice included, after the text of the choice, and leaves the Map empty,
\* so that nothing of a later choice or chunk comes before; this also with
\* chunks still to come.
C12_FlushOnFinishSignal == [][C12_FinishStep]_vars

CallZeroPart ==
    LanguageModelToolCallPart("call_0", "f",
                              JObject(<<JKid(<<"a">>, JNumber(<<"1">>))>>))

C12_Witness ==
    /\ pcDrv = "choices"
    /\ delivered < Len(stream)
    /\ stream[delivered] = ChunkFinish
    /\ Len(choices) = 1
    /\ Len(sink) >= 2
    /\ sink[Len(sink)] = CallZeroPart
    /\ sink[Len(sink) - 1] = LanguageModelTextPart(<<"B">>)
    /\ toolCallBuilders = <<>>

\* the step in which the loop of streamResponse ends on the end of the stream
NaturalEndStep == pcDrv # "returned" /\ pcDrv' = "returned" /\ transport' = "ended"

C13_EndStep ==
    NaturalEndStep =>
        /\ \A k \in 1..Len(toolCallBuilders) :
               (toolCallBuilders[k].id # "" /\ toolCallBuilders[k].name # "")
                   => ReportsBuilder(NewParts, toolCallBuilders[k])
        /\ toolCallBuilders' = <<>>
        /\ pcResp[1] = "streaming"
        /\ pcResp'[1] = "completed"

\* C13: when the stream ends with no cancellation and no error, the step
\* that ends the loop reports every builder with id and name that no flush
\* has reported, and only with that step does the response complete; this
\* also when no chunk carried a finish signal.
C13_FlushAtStreamEnd == [][C13_EndStep]_vars

C13_Witness ==
    /\ stream = <<ChunkOpenCall, ChunkCloseCall>>
    /\ pcDrv = "returned"
    /\ transport = "ended"
    /\ ~cancelRequested
    /\ sink = <<CallZeroPart>>
    /\ pcResp[1] = "completed"

C14_ToolCallStep ==
    (\E j \in 1..Len(NewParts) : IsToolCallPart(NewParts[j])) =>
        \/ ChoiceStep /\ choices[1].finish_reason = "tool_calls"
        \/ NaturalEndStep

\* C14: a tool-call part reaches the sink only in a step that processes a
\* choice with finish_reason "tool_calls" or in the step that ends the loop
\* on the natural end of the stream.
C14_ToolCallsOnlyWhenComplete == [][C14_ToolCallStep]_vars

\* the content of the choices streamResponse has processed, in order
RECURSIVE ContentOf(_)
ContentOf(cs) == IF cs = <<>> THEN <<>> ELSE Head(cs).content \o ContentOf(Tail(cs))

RECURSIVE ContentOfChunks(_)
ContentOfChunks(cks) ==
    IF cks = <<>> THEN <<>> ELSE ContentOf(Head(cks)) \o ContentOfChunks(Tail(cks))

ContentSoFar ==
    IF pcDrv = "choices"
    THEN ContentOfChunks(SubSeq(stream, 1, delivered - 1))
             \o ContentOf(SubSeq(stream[delivered], 1,
                                 Len(stream[delivered]) - Len(choices)))
    ELSE IF pcDrv \in {"check", "cancelled"}
    THEN ContentOfChunks(SubSeq(stream, 1, delivered - 1))
    ELSE ContentOfChunks(SubSeq(stream, 1, delivered))

RECURSIVE TextOf(_)
TextOf(parts) ==
    IF parts = <<>> THEN <<>>
    ELSE (IF IsToolCallPart(Head(parts)) THEN <<>> ELSE Head(parts).value)
             \o TextOf(Tail(parts))

C15_ChoiceStep ==
    (ChoiceStep /\ choices[1].content # <<>>) =>
        \E result \in {processThinkingContent(choices[1].content, thinkingState)} :
            /\ thinkingState' = result.state
            /\ result.output # <<>> =>
                   /\ Len(NewParts) >= 1
                   /\ NewParts[1] = LanguageModelTextPart(result.output)

C15_NothingKeptBack ==
    pcDrv \in {"awaiting", "check", "choices", "returned", "cancelled"} =>
        \E whole \in {processThinkingContentV1(ContentSoFar, InitialThinkingState)} :
            /\ TextOf(sink) = whole.output
            /\ thinkingState = whole.state

\* C15: the step that processes a choice reports the non-empty output of
\* processThinkingContent for its text as a text part, before the next
\* chunk is asked for; between the steps the text parts of the sink are the
\* whole output for the content processed so far, all but the carried
\* buffer.
C15_TextStreamed == []C15_NothingKeptBack /\ [][C15_ChoiceStep]_vars

C15_Witness ==
    /\ pcDrv = "choices"
    /\ Len(choices) = 0
    /\ delivered = 1
    /\ Len(stream) > 1
    /\ stream[1] = ChunkText
    /\ sink = <<LanguageModelTextPart(THINK_OPEN_MARKDOWN \o <<"A">>)>>

(***************************************************************************)
(* The claims about cancellation and about the ends of streamChat.         *)
(***************************************************************************)
\* C16: whenever the cancellation of the token is what stops the response,
\* at the head of the while loop of streamChat (api.ts 151) or at the check
\* of the caller's loop (provider.ts 132), the transport has been aborted
\* by reader.cancel() when streamChat has finished.
C16_CancelledTransportAborted ==
    pcDec \in {"cancelled", "closed"} => readerCancelled

\* C17: a response whose request was aborted on the cancellation of the
\* token raises no error to its caller and deletes no credential.
C17_CancellationIsNoError ==
    (cancelRequested /\ transport = "aborted") =>
        /\ pcResp[1] \in {"streaming", "completed"}
        /\ raised[1] = NoError
        /\ thrown[1] = NoError
        /\ deleteCalls[1] = 0

SentinelBetween == LineGoodObject \o <<"\n">> \o LineDone \o <<"\n">> \o LineGoodNumber \o <<"\n">>

C18_SentinelStep ==
    (pcDec = "lines" /\ Len(lines) > 0 /\ Head(lines) = LineDone /\ lines' # lines) =>
        /\ pcDec' = "done"
        /\ chunks' = chunks
        /\ reader' = "released"
        /\ decRaised' = NoError

C18_NothingAfterEnd ==
    pcDec = "done" => (pcDec' = "done" /\ chunks' = chunks /\ decRaised' = NoError)

\* C18: the step that decodes a data record with payload [DONE] ends
\* streamChat normally: it yields nothing, raises nothing and releases the
\* reader, and after it no chunk is yielded, whatever follows the sentinel
\* in the same read or in the body not yet read.
C18_SentinelEndsStream == [][C18_SentinelStep /\ C18_NothingAfterEnd]_vars

C18_Witness ==
    /\ wire = SentinelBetween
    /\ pcDec = "done"
    /\ rpos < Len(wire)
    /\ chunks = <<JObject(<<>>)>>
    /\ reader = "released"
    /\ decRaised = NoError

ExpectedBody(errorText) ==
    IF errorText = BodyJson
    THEN JsonBody(JObject(<<JKid(<<"c">>, JNumber(<<"1">>))>>))
    ELSE TextBody(BodyText)

\* C19: on a status that is no success streamChat throws before it takes a
\* reader, reads or yields anything, and the GlmApiError it throws carries
\* the status and the body of the response, decoded when it is JSON and as
\* text when it is not.
C19_FailureStatusRaises ==
    ~ResponseOk(response) =>
        /\ pcDec \in {"fetch", "threw"}
        /\ rpos = 0
        /\ chunks = <<>>
        /\ reader = "none"
        /\ pcDec = "threw" =>
               /\ decRaised.isGlmApiError
               /\ decRaised.statusCode = response.status
               /\ decRaised.response = ExpectedBody(wire)

C19_Witness ==
    /\ response.status = 401
    /\ wire = BodyJson
    /\ pcDec = "threw"
    /\ decRaised.statusCode = 401
    /\ decRaised.response.kind = "json"

\* C20: a GlmApiError whose status is neither 401 nor 429, status 0
\* included, propagates as the error "GLM API error: " followed by its own
\* message, with no call of deleteApiKey; and no response that failed with
\* a GlmApiError completes normally.
C20_GenericFallback ==
    \A r \in Responses :
        raised[r].isGlmApiError =>
            /\ pcResp[r] # "completed"
            /\ raised[r].statusCode \notin {401, 429} =>
                   /\ deleteCalls[r] = 0
                   /\ thrown[r] # NoError => Propagated(r)
                   /\ Propagated(r) =>
                          thrown[r] = PlainError(<<"GLM API error: ">> \o raised[r].message)

C20_Witness ==
    \E r \in Responses :
        /\ FailedWith(r, 0)
        /\ Propagated(r)
        /\ thrown[r] = PlainError(<<"GLM API error: ", "No response body">>)
        /\ deleteCalls[r] = 0

(***************************************************************************)
(* The claims about failures that are no transport failures and about      *)
(* arguments that do not parse.                                            *)
(***************************************************************************)
\* C21: a failure of the response that is no GlmApiError, whatever fields it
\* carries, reaches the caller as the very error that was raised, message
\* and all, with no call of deleteApiKey; the response does not complete.
C21_OtherFailurePassesThrough ==
    \A r \in Responses :
        (raised[r] # NoError /\ ~raised[r].isGlmApiError) =>
            /\ deleteCalls[r] = 0
            /\ pcResp[r] \in {"caught", "thrown"}
            /\ thrown[r] # NoError => Propagated(r)
            /\ Propagated(r) => thrown[r] = raised[r]

C21_Witness ==
    \E r \in Responses :
        /\ raised[r] = ForeignError
        /\ Propagated(r)
        /\ thrown[r] = ForeignError
        /\ deleteCalls[r] = 0
        /\ secret # ""

\* the builders a flush reports, in Map order
CompleteBuilders(builders) == SelectSeq(builders, LAMBDA b : b.id # "" /\ b.name # "")

UnparsedScript(i) == <<Fragment(CallIdOf(i), "", <<>>), Fragment("", "g", ArgsOpen)>>

C22_FlushStep ==
    (Len(toolCallBuilders) > 0 /\ taken' = taken) =>
        LET complete == CompleteBuilders(toolCallBuilders)
        IN /\ toolCallBuilders' = <<>>
           /\ SubSeq(sink', 1, Len(sink)) = sink
           /\ Len(NewParts) = Len(complete)
           /\ \A j \in 1..Len(complete) :
                  /\ NewParts[j].kind = "toolCall"
                  /\ NewParts[j].callId = complete[j].id
                  /\ NewParts[j].name = complete[j].name
                  /\ Unparsed(complete[j].arguments) => NewParts[j].input = EmptyMapping

\* C22: a flush reports every builder that has id and name, in Map order,
\* also one whose argument text does not parse, whose part carries the
\* empty mapping; the builders after it are reported all the same and the
\* Map is left empty.
C22_UnparsedReportedEmpty == [][C22_FlushStep]_vars

\* witness of C22: index 0 has the argument text {"a": and arrived first;
\* one flush reported it with {} and then the call of index 1
C22_Witness ==
    /\ scripts[0] = UnparsedScript(0)
    /\ scripts[1] = ExampleScript(1)
    /\ AllFlushed
    /\ toolCallBuilders = <<>>
    /\ sink = <<LanguageModelToolCallPart("call_0", "g", EmptyMapping), ExamplePart(1)>>

(***************************************************************************)
(* The claim about two responses in flight.                                *)
(***************************************************************************)
\* the parts a response reports when it runs alone: its chunks one after
\* the other from fresh locals, then the call after the loop
RECURSIVE AloneFrom(_, _, _, _), AloneAfter(_, _)
AloneFrom(cks, state, builders, progress) ==
    IF Len(cks) = 0 THEN AfterLoop(AtStreamEnd(state, progress), builders).progress
    ELSE AloneAfter(Tail(cks), processChoices(Head(cks), state, builders, progress))

AloneAfter(cks, done) ==
    IF done.returns THEN AloneFrom(cks, done.state, done.builders, done.progress)
    ELSE done.progress

Alone(chunksToCome) == AloneFrom(chunksToCome, InitialThinkingState, <<>>, <<>>)

\* no step of either call is possible any more: both have returned, or
\* the thread is held by a call that never gives it back
CallsQuiescent == thread # 0 \/ \A r \in Responses : calls[r].pc = "returned"

\* the locals of the calls are not shared: what a call has reported is the
\* start of what it reports alone, and all of it once the call has returned
C23_LocalsNotShared ==
    \A r \in Responses :
        /\ IsPrefix(calls[r].progress, Alone(calls[r].stream))
        /\ calls[r].pc = "returned" => calls[r].progress = Alone(calls[r].stream)

\* C23: with two responses in flight whose steps interleave in any order,
\* each response has reported, when nothing more happens, the sequence of
\* parts it reports when it runs alone.
C23_ResponsesIsolated ==
    CallsQuiescent => \A r \in Responses : calls[r].progress = Alone(calls[r].stream)

(***************************************************************************)
(* The claim about a reasoning block that the stream leaves open.          *)
(***************************************************************************)
\* how often the decoration occurs in a text
DecorationCount(chars, decoration) ==
    Cardinality({k \in 1..Len(chars) : <<chars[k]>> = decoration})

C24_NoCloseAtEnd ==
    (pcDrv # "returned" /\ pcDrv' = "returned" /\ thinkingState.insideThinking) =>
        /\ \A j \in 1..Len(NewParts) : IsToolCallPart(NewParts[j])
        /\ thinkingState'.insideThinking
        /\ pcResp'[1] = "completed"

C24_BlockLeftOpen ==
    (pcResp[1] = "completed" /\ thinkingState.insideThinking) =>
        DecorationCount(TextOf(sink), THINK_OPEN_MARKDOWN)
            = DecorationCount(TextOf(sink), THINK_CLOSE_MARKDOWN) + 1

\* C24: when the loop of streamResponse ends with insideThinking true, the
\* step that ends it reports no text part, so no closing decoration, and
\* the response completes; the sink of a response completed that way holds
\* one open decoration more than it holds closing ones.
C24_FailOpen == []C24_BlockLeftOpen /\ [][C24_NoCloseAtEnd]_vars

C24_Witness ==
    /\ stream = <<ChunkText>>
    /\ pcDrv = "returned"
    /\ transport = "ended"
    /\ pcResp[1] = "completed"
    /\ thinkingState.insideThinking
    /\ sink = <<LanguageModelTextPart(THINK_OPEN_MARKDOWN \o <<"A">>)>>

(***************************************************************************)
(* The claim about the reads of the decoder.                               *)
(***************************************************************************)
\* what the for loop yields for the lines of one read, up to the sentinel
RECURSIVE Yields(_), YieldsAfter(_, _)
Yields(ls) ==
    IF Len(ls) = 0 THEN <<>>
    ELSE YieldsAfter(decodeLine(Head(ls)), Tail(ls))

YieldsAfter(step, rest) ==
    IF step.kind = "return" THEN <<>>
    ELSE IF step.kind = "yield" THEN <<step.chunk>> \o Yields(rest)
    ELSE Yields(rest)

\* the chunks yielded when the whole body arrives in one read
OneRead(body) == Yields(RecordsOf(body))

\* the body not yet read
Unread == Drop(wire, rpos)

C25_SameAsOneRead ==
    (ResponseOk(response) /\ response.hasBody) =>
        /\ pcDec \in {"lines", "read", "yielded"} =>
               chunks \o Yields(lines \o RecordsOf(lineBuffer \o Unread)) = OneRead(wire)
        /\ pcDec = "done" => chunks = OneRead(wire)

C25_SilentLine ==
    (pcDec = "lines" /\ Len(lines) > 0 /\ lines' # lines
        /\ (Trim(Head(lines)) = <<>> \/ ~StartsWith(Trim(Head(lines)), DataPrefix)))
    => (chunks' = chunks /\ pcDec' = "lines")

\* C25: however the reads cut the body, inside a line, inside the data
\* prefix or inside the payload, what the decoder has yielded followed by
\* what the lines still to come yield is what one read of the whole body
\* yields, and a decoding that has ended has yielded exactly that; a blank
\* line and a line without the data prefix yield nothing.
C25_ReadBoundaryIndependent == []C25_SameAsOneRead /\ [][C25_SilentLine]_vars

CommentBetween ==
    LineGoodObject \o <<"\n">> \o LineComment \o <<"\n">> \o LineGoodNumber \o <<"\n">>

\* a record, a blank line, a record
BlankLineBetween == LineGoodObject \o <<"\n", "\n">> \o LineGoodNumber \o <<"\n">>

\* witness of C25: two reads went by, the second ended inside the data
\* prefix of the third line
C25_Witness ==
    /\ wire \in {CommentBetween, BlankLineBetween}
    /\ pcDec = "read"
    /\ lineBuffer = <<"d", "a", "t">>
    /\ chunks = <<JObject(<<>>)>>
    /\ OneRead(wire) = <<JObject(<<>>), JNumber(<<"2">>)>>

(***************************************************************************)
(* The claims about a builder between two flushes.                         *)
(***************************************************************************)
\* the builder of index i in the Map of the next state
BuilderAtNext(i) == BuilderAt(toolCallBuilders', i)

C26_ArgumentsInOrder ==
    \A i \in Indices :
        /\ BuilderAt(toolCallBuilders, i) = 0 <=> SinceFlush(i) = <<>>
        /\ BuilderAt(toolCallBuilders, i) # 0 =>
               toolCallBuilders[BuilderAt(toolCallBuilders, i)].arguments
                   = ArgumentsOf(SinceFlush(i))

C26_NeverEmptied ==
    \A i \in Indices :
        (BuilderAt(toolCallBuilders, i) # 0 /\ BuilderAtNext(i) # 0) =>
            /\ toolCallBuilders[BuilderAt(toolCallBuilders, i)].id # ""
                   => toolCallBuilders'[BuilderAtNext(i)].id # ""
            /\ toolCallBuilders[BuilderAt(toolCallBuilders, i)].name # ""
                   => toolCallBuilders'[BuilderAtNext(i)].name # ""
            /\ IsPrefix(toolCallBuilders[BuilderAt(toolCallBuilders, i)].arguments,
                        toolCallBuilders'[BuilderAtNext(i)].arguments)

\* C26: between two flushes the Map holds a builder for exactly the
\* indices that had a fragment since the last flush, the argument text of
\* each is the concatenation of that index's argument fragments in arrival
\* order, a step only ever extends it, and an identifier or a name that is
\* set is never empty again while the builder is in the Map.
C26_BuilderInvariant == []C26_ArgumentsInOrder /\ [][C26_NeverEmptied]_vars

\* witness of C26: index 0 got identifier and name first and then three
\* argument fragments that carry neither
C26_Witness ==
    /\ scripts[0] = ExampleScript(0)
    /\ taken[0] = 4
    /\ flushedAt[0] = 0
    /\ BuilderAt(toolCallBuilders, 0) # 0
    /\ toolCallBuilders[BuilderAt(toolCallBuilders, 0)]
           = [index |-> 0, id |-> "call_0", name |-> "f",
              arguments |-> ArgsOpen \o ArgsOne \o ArgsClose]

C27_KeptOnceSet ==
    \A i \in Indices :
        (BuilderAt(toolCallBuilders, i) # 0 /\ BuilderAtNext(i) # 0) =>
            /\ toolCallBuilders[BuilderAt(toolCallBuilders, i)].id # ""
                   => toolCallBuilders'[BuilderAtNext(i)].id
                          = toolCallBuilders[BuilderAt(toolCallBuilders, i)].id
            /\ toolCallBuilders[BuilderAt(toolCallBuilders, i)].name # ""
                   => toolCallBuilders'[BuilderAtNext(i)].name
                          = toolCallBuilders[BuilderAt(toolCallBuilders, i)].name

HeldSuffix(chars, inside) ==
    LET marker == SoughtMarker(inside)
        hits == {n \in 1..(Len(marker) - 1) :
                    n <= Len(chars) /\ LastN(chars, n) = Take(marker, n)}
    IN IF hits = {} THEN <<>>
       ELSE LastN(chars, CHOOSE n \in hits : \A m \in hits : m <= n)

C28_AfterInvocation ==
    pcThink = "idle" =>
        /\ thinkingState.buffer = HeldSuffix(Fed, thinkingState.insideThinking)
        /\ Len(thinkingState.buffer) < Len(SoughtMarker(thinkingState.insideThinking))

\* C28: every invocation comes to its end, and after it the carried buffer
\* is the longest suffix of the text processed so far that is a non-empty
\* proper prefix of the marker sought in the resulting mode, or empty when
\* no suffix is one.
C28_CarriedBufferIsHeldSuffix ==
    /\ C28_AfterInvocation
    /\ ThinkQuiescent => pcThink = "idle"

\* everything the invocations have put out, the one that is running included
EmittedSoFar == IF pcThink = "loop" THEN emitted \o output ELSE emitted

\* the flag as it stands, in the running invocation or in the carried state
InsideSoFar == IF pcThink = "loop" THEN insideThinking ELSE thinkingState.insideThinking

\* the decorations of a text, in order
DecorationsOf(chars) == SelectSeq(chars, IsDecoration)

\* how many markers a left-to-right scan of s consumes: the first open
\* marker, then the first close marker after it, and so on
RECURSIVE MarkerCount(_, _)
MarkerCount(chars, inside) ==
    LET marker == IF inside THEN THINK_CLOSE ELSE THINK_OPEN
        idx == IndexOf(chars, marker)
    IN IF idx < 0 THEN 0
       ELSE 1 + MarkerCount(Drop(chars, idx + Len(marker)), ~inside)

\* a close marker outside a block, a block whose text is an open marker
StrayMarkersText == THINK_CLOSE \o THINK_OPEN \o THINK_OPEN \o THINK_CLOSE

StrayMarkersResult ==
    THINK_CLOSE \o THINK_OPEN_MARKDOWN \o THINK_OPEN \o THINK_CLOSE_MARKDOWN

\* C29: in everything put out so far the decorations alternate, the first
\* being an open decoration, and insideThinking is true exactly when one
\* more open than close decoration has been put out; between invocations
\* there are as many decorations as a scan of the text consumes markers
\* when it seeks the open and the close marker in turn, so that an open
\* marker inside a block and a close marker outside stay in the text as
\* they are (for </think><think><think></think>: the close marker, one
\* block holding the open marker).
C29_DecorationsAlternate ==
    /\ \A k \in 1..Len(DecorationsOf(EmittedSoFar)) :
           <<DecorationsOf(EmittedSoFar)[k]>>
               = (IF k % 2 = 1 THEN THINK_OPEN_MARKDOWN ELSE THINK_CLOSE_MARKDOWN)
    /\ InsideSoFar <=>
           DecorationCount(EmittedSoFar, THINK_OPEN_MARKDOWN)
               = DecorationCount(EmittedSoFar, THINK_CLOSE_MARKDOWN) + 1
    /\ pcThink = "idle" =>
           Len(DecorationsOf(emitted)) = MarkerCount(Fed, FALSE)
    /\ (pcThink = "idle" /\ text = StrayMarkersText /\ pos = Len(text))
           => emitted = StrayMarkersResult

\* witness of C29: </think><think><think></think> fed to the end, in any
\* fragments: two decorations, the flag back to false
C29_Witness ==
    /\ text = StrayMarkersText
    /\ pos = Len(text)
    /\ pcThink = "idle"
    /\ emitted = StrayMarkersResult
    /\ ~thinkingState.insideThinking

(***************************************************************************)
(* The claim about the characters held back when the stream ends.          *)
(***************************************************************************)
\* the content handed to reportTextDelta so far, the content of a call
\* that is still running included
HandedOver ==
    IF pcDrv = "spinning"
    THEN ContentOfChunks(SubSeq(stream, 1, delivered - 1))
             \o ContentOf(SubSeq(stream[delivered], 1,
                                 Len(stream[delivered]) - Len(choices)))
             \o choices[1].content
    ELSE ContentSoFar

\* what processThinkingContent puts out for a text and what it holds back,
\* at the place where the text ends in a marker prefix (provider.ts 67-69)
PutOutAndHeld(chars) == processThinkingContentV1(chars, InitialThinkingState)

\* C30: where streamResponse has come to rest, after the end of the stream
\* or for good, the text parts of the sink are the transformed content
\* without the suffix held back as a possible marker start (for a content
\* ending in `<`, everything before the `<`).
C30_OnlyHeldSuffixMissing ==
    pcDrv \in {"returned", "spinning"} =>
        TextOf(sink) = PutOutAndHeld(HandedOver).output


(***************************************************************************)
(* The claim about the segment the buffer holds when the transport closes. *)
(***************************************************************************)
\* the step on which read() reports done
C31_CloseStep ==
    (pcDec = "read" /\ pcDec' = "done") =>
        /\ chunks' = chunks
        /\ decRaised' = NoError
        /\ lineBuffer' = lineBuffer

\* a decoding that ended with the whole body read and a segment in the buffer
C31_SegmentNeverYielded ==
    (ResponseOk(response) /\ response.hasBody /\ rpos = Len(wire) /\ lineBuffer # <<>>
        /\ pcDec = "done")
    => /\ chunks = Yields(RecordsOf(wire))
       /\ Len(chunks) <= Len(RecordsOf(wire))
       /\ decRaised = NoError

\* C31: when the transport closes while the buffer holds a segment without
\* a newline after it, the segment is discarded: the closing step yields
\* nothing and raises nothing, and what the decoding has yielded is what the
\* terminated lines yield, even when the segment is a well-formed data
\* record or the sentinel.
C31_UnterminatedSegmentDiscarded == []C31_SegmentNeverYielded /\ [][C31_CloseStep]_vars

\* a record, then a well-formed record without a newline after it
RecordUnterminated == LineGoodNumber \o <<"\n">> \o LineGoodObject

\* witness of C31: the transport closed on a well-formed record in the buffer
C31_Witness ==
    /\ wire = RecordUnterminated
    /\ pcDec = "done"
    /\ rpos = Len(wire)
    /\ lineBuffer = LineGoodObject
    /\ decodeLine(lineBuffer).kind = "yield"
    /\ chunks = <<JNumber(<<"2">>)>>
    /\ decRaised = NoError


(***************************************************************************)
(* The claim about the argument value of a reported tool call.             *)
(***************************************************************************)
\* argument texts that parse to something other than a mapping
NonMappingTexts ==
    { <<"n", "u", "l", "l">>, <<"2">>, <<"0">>, <<"\"", "s", "\"">>, <<"\"", "\"">>,
      <<"[", "1", "]">>, <<"[", "]">>, <<"f", "a", "l", "s", "e">>, <<"t", "r", "u", "e">> }

\* parseToolArguments (provider.ts 438-444) on the empty text, on the texts
\* that are no mapping and on a mapping
C32_ParseToolArgumentsGivesMapping ==
    /\ parseToolArguments(<<>>) = EmptyMapping
    /\ \A t \in NonMappingTexts :
          JsonParse(t).ok /\ JsonParse(t).val.kind # "object"
              /\ parseToolArguments(t) = EmptyMapping
    /\ parseToolArguments(ArgsOpen \o ArgsRest).kind = "object"
    /\ \A k \in 1..Len(sink) : sink[k].kind = "toolCall" => sink[k].input.kind = "object"

\* C32: every tool-call part the sink has received carries a mapping as its
\* argument value; an argument text that is empty, or that parses to
\* something that is no mapping, is reported as the empty mapping.
C32_ArgumentIsMapping ==
    \A k \in 1..Len(sink) :
        sink[k].kind = "toolCall" => sink[k].input.kind = "object"

============================================================================
